---- MODULE Spec2Model ----
(***************************************************************************)
(* RabbitAssets: the exchange connection (BaseExchange: WebSocket session, *)
(* reconnect backoff, watchdog), the Monitor that binds an exchange to its *)
(* assets, the MonitorManager that starts one Monitor per exchange, and    *)
(* the asset metrics read.                                                 *)
(***************************************************************************)
EXTENDS Integers, Sequences, FiniteSets, TLC

(***************************************************************************)
(* Program constants of BaseExchange                                       *)
(***************************************************************************)
INITIAL_BACKOFF == 1000
MAX_BACKOFF == 30000
WATCHDOG_PERIOD == 15000
SILENCE_LIMIT == 60000

(***************************************************************************)
(* Bounds of the model                                                     *)
(***************************************************************************)
\* the failure counter of a run stops counting here (the delay is capped long before)
MaxFails == 7
\* watchdog ticks of silence that are told apart beyond the 60 s threshold
MaxSilenceTicks == 5

Min(a, b) == IF a < b THEN a ELSE b

\* the symbol lists a caller may pass to connectWebSocket
SymbolLists == {<<"BTC">>, <<"BTC", "ETH">>}

VARIABLES
    ex,           \* the fields of one BaseExchange, of its current session and caller's promise
    mon,          \* the fields of the Monitor bound to ex
    store,        \* the Price Store (prices map) of ex
    lastOp,       \* the handler that ran last
    fails,        \* failures since the last open event / disconnect / manual reconnect
    intent,       \* "none": never connected, "connect": connect called, "stopped": disconnected
    lastRequested,\* the symbols of the most recent connectWebSocket call of a caller
    sinceOpen,    \* "na" | "opened": an open event fired and no timer was armed since | "armed"
    env,          \* MonitorManager run: what each exchange adapter does ("ok", "ctorThrows", "urlThrows")
    exs,          \* MonitorManager run: the BaseExchange of each exchange name
    mons,         \* MonitorManager run: the Monitor of each exchange name
    mgr,          \* the fields of the MonitorManager and the position of initialize()
    assets,       \* config.assets
    stores,       \* metrics read: the Price Store of each exchange
    rates,        \* FiatService.rates
    metrics,      \* the list returned by the last getAssetMetrics()
    everPositive, \* the <<exchange, symbol>> pairs that ever received a sample with price > 0
    fiat,         \* FiatService: the variant, lastUpdate, the refresh interval, the rates before the last refresh
    conversion,   \* the last convert call: its arguments and what it returned
    exported,     \* the lines of the last generateOpenMetrics() that carry a value
    clock,        \* Date.now() / 1000
    calls,        \* the last two generateOpenMetrics() calls: options and lines
    inflight,     \* Price Store run: REST fetches that await their answer
    lastWrite,    \* Price Store run: per symbol, the sample of the updatePrice call that completed last
    settled       \* liveness run: from here on every connection attempt opens and no caller intervenes

(***************************************************************************)
(* BaseExchange state after construction (field initialisers).             *)
(*  ws: readyState of this.ws, "none" when this.ws is undefined            *)
(*  wsSymbols/wsOwner: the symbols the session was opened for, and whose   *)
(*      promise its onopen resolves ("call": a public call, "timer")       *)
(*  attached: sessions whose handlers are attached                         *)
(*  stale: some detached session may still deliver events                 *)
(*  created: the handler that ran last called new WebSocket(url)           *)
(*  watchdogInterval / watchdogs: the handle, and the interval timers      *)
(*      actually running                                                   *)
(*  reconnectTimeout: "none" (undefined), "pending", "fired" (the handle   *)
(*      is kept after its timer ran); timers: timeouts actually pending;   *)
(*      timerDelay: the delay the pending timeout was armed with;          *)
(*      armed: the handler that ran last called setTimeout                 *)
(*  silence: Date.now() - lastMessageTime as seen by the watchdog          *)
(*  callPromise: the promise returned by the most recent public            *)
(*      connectWebSocket / reconnect call                                  *)
(***************************************************************************)
ExchangeInit ==
    [ ws |-> "none", wsSymbols |-> <<>>, wsOwner |-> "none",
      attached |-> 0, stale |-> FALSE, created |-> FALSE,
      reconnecting |-> FALSE,
      silence |-> 0,
      watchdogInterval |-> FALSE, watchdogs |-> 0,
      reconnectTimeout |-> "none", timers |-> 0, timerDelay |-> 0, armed |-> FALSE,
      backoff |-> INITIAL_BACKOFF,
      currentSymbols |-> <<>>,
      callPromise |-> "none" ]

\* a handler starts: nothing created or armed by it yet
Begin(e) == [e EXCEPT !.created = FALSE, !.armed = FALSE]

\* a cleanup that leaves the watchdog interval running
cleanupWebSocket_KeepsWatchdog(e) ==
    LET e2 == IF e.reconnectTimeout # "none"
              THEN [e EXCEPT !.reconnectTimeout = "none",
                             !.timers = IF e.reconnectTimeout = "pending" THEN @ - 1 ELSE @,
                             !.timerDelay = IF e.reconnectTimeout = "pending" THEN 0 ELSE @]
              ELSE e
    IN IF e2.ws # "none"
       THEN [e2 EXCEPT !.attached = @ - 1,
                       !.stale = @ \/ e2.ws \in {"OPEN", "CONNECTING", "CLOSING"},
                       !.ws = "none", !.wsSymbols = <<>>, !.wsOwner = "none"]
       ELSE e2

\* a cleanup that drops the session with its handlers still attached
cleanupWebSocket_KeepsHandlers(e) ==
    LET e1 == IF e.watchdogInterval
              THEN [e EXCEPT !.watchdogInterval = FALSE, !.watchdogs = @ - 1]
              ELSE e
        e2 == IF e1.reconnectTimeout # "none"
              THEN [e1 EXCEPT !.reconnectTimeout = "none",
                              !.timers = IF e1.reconnectTimeout = "pending" THEN @ - 1 ELSE @,
                              !.timerDelay = IF e1.reconnectTimeout = "pending" THEN 0 ELSE @]
              ELSE e1
    IN IF e2.ws # "none"
       THEN [e2 EXCEPT !.stale = @ \/ e2.ws \in {"OPEN", "CONNECTING", "CLOSING"},
                       !.ws = "none", !.wsSymbols = <<>>, !.wsOwner = "none"]
       ELSE e2

\* a cleanup that leaves the reconnect timeout alone
cleanupWebSocket_KeepsTimeout(e) ==
    LET e1 == IF e.watchdogInterval
              THEN [e EXCEPT !.watchdogInterval = FALSE, !.watchdogs = @ - 1]
              ELSE e
    IN IF e1.ws # "none"
       THEN [e1 EXCEPT !.attached = @ - 1,
                       !.stale = @ \/ e1.ws \in {"OPEN", "CONNECTING", "CLOSING"},
                       !.ws = "none", !.wsSymbols = <<>>, !.wsOwner = "none"]
       ELSE e1

\* cleanupWebSocket(): clear both timers, detach the handlers, close, drop the session
cleanupWebSocket(e) ==
    LET e1 == IF e.watchdogInterval
              THEN [e EXCEPT !.watchdogInterval = FALSE, !.watchdogs = @ - 1]
              ELSE e
        e2 == IF e1.reconnectTimeout # "none"
              THEN [e1 EXCEPT !.reconnectTimeout = "none",
                              !.timers = IF e1.reconnectTimeout = "pending" THEN @ - 1 ELSE @,
                              !.timerDelay = IF e1.reconnectTimeout = "pending" THEN 0 ELSE @]
              ELSE e1
    IN IF e2.ws # "none"
       THEN [e2 EXCEPT !.attached = @ - 1,
                       !.stale = @ \/ e2.ws \in {"OPEN", "CONNECTING", "CLOSING"},
                       !.ws = "none", !.wsSymbols = <<>>, !.wsOwner = "none"]
       ELSE e2

\* scheduleReconnect(): latch, cleanup, arm one timeout with the current backoff
scheduleReconnect(e) ==
    IF e.reconnecting
    THEN e
    ELSE LET e1 == cleanupWebSocket([e EXCEPT !.reconnecting = TRUE])
         IN [e1 EXCEPT !.reconnectTimeout = "pending",
                       !.timers = @ + 1,
                       !.timerDelay = e1.backoff,
                       !.armed = TRUE]

\* how the promise returned by connectWebSocket stands when the call returns:
\* resolve() at once, reject(err) from the catch, or left to the session's onopen
connectOutcome(e, throws) ==
    IF e.ws \in {"OPEN", "CONNECTING"} THEN "resolved"
    ELSE IF throws THEN "rejected"
    ELSE "pending"

\* connectWebSocket without the early return for a session that is OPEN or CONNECTING
connectWebSocket_NoGuard(e, symbols, throws, owner) ==
    LET e0 == [e EXCEPT !.currentSymbols = symbols,
                        !.callPromise = IF owner = "call"
                                        THEN (IF throws THEN "rejected" ELSE "pending")
                                        ELSE @]
        e1 == IF e0.ws # "none" THEN cleanupWebSocket(e0) ELSE e0
    IN IF throws
       THEN scheduleReconnect(e1)
       ELSE [e1 EXCEPT !.ws = "CONNECTING", !.wsSymbols = symbols,
                       !.wsOwner = owner, !.attached = @ + 1, !.created = TRUE]

\* the executor of connectWebSocket(symbols), which runs to the end before the promise
\* is returned; throws: getWebSocketURL / new WebSocket raises; owner: "call" for a
\* public caller, "timer" for the reconnect timeout
connectWebSocket(e, symbols, throws, owner) ==
    LET e0 == [e EXCEPT !.currentSymbols = symbols,
                        !.callPromise = IF owner = "call" THEN connectOutcome(e, throws) ELSE @]
    IN IF e0.ws \in {"OPEN", "CONNECTING"}
       THEN e0
       ELSE LET e1 == IF e0.ws # "none" THEN cleanupWebSocket(e0) ELSE e0
            IN IF throws
               THEN scheduleReconnect(e1)
               ELSE [e1 EXCEPT !.ws = "CONNECTING", !.wsSymbols = symbols,
                               !.wsOwner = owner, !.attached = @ + 1, !.created = TRUE]


\* startWatchdog(): replace the interval timer
startWatchdog(e) ==
    LET e1 == IF e.watchdogInterval THEN [e EXCEPT !.watchdogs = @ - 1] ELSE e
    IN [e1 EXCEPT !.watchdogInterval = TRUE, !.watchdogs = @ + 1]

\* ws.onopen: the last statement resolves the promise of the call that made the session
onopen(e) ==
    LET e1 == startWatchdog([e EXCEPT !.ws = "OPEN", !.silence = 0,
                                      !.reconnecting = FALSE, !.backoff = INITIAL_BACKOFF])
    IN [e1 EXCEPT !.callPromise = IF e.wsOwner = "call" /\ @ = "pending" THEN "resolved" ELSE @]

\* ws.onclose (the session's readyState is CLOSED when the handler runs)
onclose(e) == scheduleReconnect([e EXCEPT !.ws = "CLOSED"])

\* disconnectWebSocket that leaves the reconnecting latch as it finds it
disconnectWebSocket_KeepsLatch(e) ==
    [cleanupWebSocket(e) EXCEPT !.backoff = INITIAL_BACKOFF]

\* disconnectWebSocket()
disconnectWebSocket(e) ==
    [cleanupWebSocket(e) EXCEPT !.reconnecting = FALSE, !.backoff = INITIAL_BACKOFF]

\* reconnect(): reset backoff, cleanup, connect with the remembered symbols
reconnect(e, throws) ==
    LET e1 == cleanupWebSocket([e EXCEPT !.backoff = INITIAL_BACKOFF])
    IN connectWebSocket(e1, e1.currentSymbols, throws, "call")

\* a timer callback that reconnects with the symbols of the session it replaces
reconnectTimerCallback_SessionSymbols(e, throws) ==
    LET e1 == [e EXCEPT !.reconnecting = FALSE,
                        !.timers = @ - 1,
                        !.timerDelay = IF e.timers = 1 THEN 0 ELSE @,
                        !.reconnectTimeout = IF e.timers = 1 /\ @ = "pending" THEN "fired" ELSE @]
        e2 == connectWebSocket(e1, e1.wsSymbols, throws, "timer")
        e3 == [e2 EXCEPT !.backoff = Min(@ * 2, MAX_BACKOFF)]
    IN IF connectOutcome(e1, throws) = "rejected" THEN scheduleReconnect(e3) ELSE e3

\* the callback of the reconnect timeout, with the .catch of the rejected attempt
reconnectTimerCallback(e, throws) ==
    LET e1 == [e EXCEPT !.reconnecting = FALSE,
                        !.timers = @ - 1,
                        !.timerDelay = IF e.timers = 1 THEN 0 ELSE @,
                        !.reconnectTimeout = IF e.timers = 1 /\ @ = "pending" THEN "fired" ELSE @]
        e2 == connectWebSocket(e1, e1.currentSymbols, throws, "timer")
        e3 == [e2 EXCEPT !.backoff = Min(@ * 2, MAX_BACKOFF)]
    IN IF connectOutcome(e1, throws) = "rejected" THEN scheduleReconnect(e3) ELSE e3

\* a watchdog that waits one more period
watchdogCallback_OnePeriodLate(e) ==
    LET e1 == [e EXCEPT !.silence = Min(@ + WATCHDOG_PERIOD, MaxSilenceTicks * WATCHDOG_PERIOD)]
    IN IF e1.ws # "OPEN" THEN e1
       ELSE IF e1.silence > SILENCE_LIMIT + WATCHDOG_PERIOD THEN scheduleReconnect(e1)
       ELSE e1

\* a watchdog that already gives up at SILENCE_LIMIT
watchdogCallback_AtLimit(e) ==
    LET e1 == [e EXCEPT !.silence = Min(@ + WATCHDOG_PERIOD, MaxSilenceTicks * WATCHDOG_PERIOD)]
    IN IF e1.ws # "OPEN" THEN e1
       ELSE IF e1.silence >= SILENCE_LIMIT THEN scheduleReconnect(e1)
       ELSE e1

\* one run of the watchdog interval callback, WATCHDOG_PERIOD after the previous one
watchdogCallback(e) ==
    LET e1 == [e EXCEPT !.silence = Min(@ + WATCHDOG_PERIOD, MaxSilenceTicks * WATCHDOG_PERIOD)]
    IN IF e1.ws # "OPEN" THEN e1
       ELSE IF e1.silence > SILENCE_LIMIT THEN scheduleReconnect(e1)
       ELSE e1

(***************************************************************************)
(* Numbers: a JavaScript number is a normalised fraction or NaN            *)
(***************************************************************************)
\* NaN and undefined are kept apart from every fraction by their denominator
NaN == [n |-> 0, d |-> 0]
Undefined == [n |-> 0, d |-> -1]

Abs(x) == IF x < 0 THEN -x ELSE x

RECURSIVE Gcd(_, _)
Gcd(a, b) == IF b = 0 THEN a ELSE Gcd(b, a % b)

Rat(n, d) ==
    LET g == Gcd(Abs(n), Abs(d))
        sgn == IF d < 0 THEN -1 ELSE 1
    IN [n |-> sgn * (n \div g), d |-> sgn * (d \div g)]

Num(n) == Rat(n, 1)
RMul(a, b) == IF a = NaN \/ b = NaN THEN NaN ELSE Rat(a.n * b.n, a.d * b.d)
RDiv(a, b) == IF a = NaN \/ b = NaN \/ b.n = 0 THEN NaN ELSE Rat(a.n * b.d, a.d * b.n)
RAdd(a, b) == IF a = NaN \/ b = NaN THEN NaN ELSE Rat(a.n * b.d + b.n * a.d, a.d * b.d)
\* x > 0 (false for NaN)
GtZero(x) == x # NaN /\ x.n > 0

(***************************************************************************)
(* FiatService (USD anchored): rates maps a currency code to its rate      *)
(***************************************************************************)
Codes == {"USD", "USDT", "EUR", "GBP", "BTC", "ETH"}
NoRate == Undefined

\* the table after the constructor: this.rates.USD = 1
RatesInit == [c \in Codes |-> IF c = "USD" THEN Num(1) ELSE NoRate]

\* the data.rates objects the rate source may answer with
RateTables ==
    { [c \in Codes |-> CASE c = "USD" -> Num(1) [] c = "USDT" -> Num(1)
                         [] c = "EUR" -> Rat(1, 2) [] OTHER -> NoRate],
      [c \in Codes |-> CASE c = "USD" -> Num(1) [] c = "EUR" -> Rat(3, 4)
                         [] c = "GBP" -> Num(0) [] OTHER -> NoRate] }

\* updateRates() with a parsed answer: every key of data.rates is copied
updateRates(rt, data) == [c \in Codes |-> IF data[c] # NoRate THEN data[c] ELSE rt[c]]

\* !rate : undefined, 0 and NaN are falsy
Falsy(r) == r = NoRate \/ r = NaN \/ r.n = 0

\* convert without the shortcut for equal currencies
convert_NoShortcut(rt, amount, from, to) ==
    IF from # "USD" /\ Falsy(rt[from]) THEN [ok |-> FALSE, value |-> amount]
    ELSE LET a1 == IF from # "USD" THEN RDiv(amount, rt[from]) ELSE amount
         IN IF to # "USD" /\ Falsy(rt[to]) THEN [ok |-> FALSE, value |-> amount]
            ELSE [ok |-> TRUE, value |-> IF to # "USD" THEN RMul(a1, rt[to]) ELSE a1]

\* convert that skips the division by the rate of the source currency
convert_MultiplyOnly(rt, amount, from, to) ==
    IF from = to THEN [ok |-> TRUE, value |-> amount]
    ELSE IF from # "USD" /\ Falsy(rt[from]) THEN [ok |-> FALSE, value |-> amount]
    ELSE IF to # "USD" /\ Falsy(rt[to]) THEN [ok |-> FALSE, value |-> amount]
    ELSE [ok |-> TRUE, value |-> IF to # "USD" THEN RMul(amount, rt[to]) ELSE amount]

\* convert that returns the anchor amount when the target currency has no rate
convert_UnknownTargetAsIs(rt, amount, from, to) ==
    IF from = to THEN [ok |-> TRUE, value |-> amount]
    ELSE IF from # "USD" /\ Falsy(rt[from]) THEN [ok |-> FALSE, value |-> amount]
    ELSE LET a1 == IF from # "USD" THEN RDiv(amount, rt[from]) ELSE amount
         IN [ok |-> TRUE, value |-> IF to # "USD" /\ ~Falsy(rt[to]) THEN RMul(a1, rt[to]) ELSE a1]

\* convert(amount, fromCurrency, toCurrency); ok = FALSE stands for the thrown
\* "Unknown currency" error
convert(rt, amount, from, to) ==
    IF from = to THEN [ok |-> TRUE, value |-> amount]
    ELSE IF from # "USD" /\ Falsy(rt[from]) THEN [ok |-> FALSE, value |-> amount]
    ELSE LET a1 == IF from # "USD" THEN RDiv(amount, rt[from]) ELSE amount
         IN IF to # "USD" /\ Falsy(rt[to]) THEN [ok |-> FALSE, value |-> amount]
            ELSE [ok |-> TRUE, value |-> IF to # "USD" THEN RMul(a1, rt[to]) ELSE a1]

\* convert of the FiatService anchored at EUR
convertEurAnchor(rt, amount, from, to) ==
    IF from = to THEN [ok |-> TRUE, value |-> amount]
    ELSE IF from # "EUR" /\ Falsy(rt[from]) THEN [ok |-> FALSE, value |-> amount]
    ELSE LET a1 == IF from # "EUR" THEN RDiv(amount, rt[from]) ELSE amount
         IN IF to # "EUR" /\ Falsy(rt[to]) THEN [ok |-> FALSE, value |-> amount]
            ELSE [ok |-> TRUE, value |-> IF to # "EUR" THEN RMul(a1, rt[to]) ELSE a1]

\* convert of the FiatService that multiplies by the source rate and divides by the
\* target rate
convertMulDiv(rt, amount, from, to) ==
    IF from = to THEN [ok |-> TRUE, value |-> amount]
    ELSE IF from # "USD" /\ Falsy(rt[from]) THEN [ok |-> FALSE, value |-> amount]
    ELSE LET a1 == IF from # "USD" THEN RMul(amount, rt[from]) ELSE amount
         IN IF to # "USD" /\ Falsy(rt[to]) THEN [ok |-> FALSE, value |-> amount]
            ELSE [ok |-> TRUE, value |-> IF to # "USD" THEN RDiv(a1, rt[to]) ELSE a1]

\* getRate(fromCurrency, toCurrency)
getRate(rt, from, to) ==
    IF from = to THEN [ok |-> TRUE, value |-> Num(1)] ELSE convert(rt, Num(1), from, to)

(***************************************************************************)
(* Price Store: BaseExchange.prices, a Map from symbol to PriceData        *)
(***************************************************************************)
Symbols == {"BTC", "ETH", "EUR", "GBP"}
NoSample == [price |-> Undefined, currency |-> "none"]
EmptyStore == [s \in Symbols |-> NoSample]

\* a store that keeps the first sample of a symbol
updatePrice_KeepsFirst(st, symbol, price, currency) ==
    IF st[symbol] # NoSample THEN st
    ELSE [st EXCEPT ![symbol] = [price |-> price, currency |-> currency]]

\* updatePrice(priceData): prices.set(symbol, priceData)
updatePrice(st, symbol, price, currency) ==
    [st EXCEPT ![symbol] = [price |-> price, currency |-> currency]]

\* what a received frame can be: not JSON, JSON the adapter ignores, or a ticker
\* whose price field parses to a number or to NaN
Frames == {[kind |-> "invalid"], [kind |-> "ignored"]}
          \cup {[kind |-> "ticker", symbol |-> "BTC", price |-> p] : p \in {Num(5), NaN}}

\* BinanceExchange.handleMessage after JSON.parse (a parse error is caught and logged)
handleMessage(st, frame) ==
    IF frame.kind = "ticker"
    THEN updatePrice(st, frame.symbol, frame.price, "USDT")
    ELSE st

\* FiatExchange.fetchPricesRest(symbols, fiatService): symbols.forEach, which the
\* first getRate that throws ends
RECURSIVE fiatFetchPricesRest(_, _, _)
fiatFetchPricesRest(st, symbols, rt) ==
    IF symbols = <<>> THEN st
    ELSE LET r == getRate(rt, Head(symbols), "USD")
         IN IF ~r.ok THEN st
            ELSE fiatFetchPricesRest(updatePrice(st, Head(symbols), r.value, "USD"),
                                     Tail(symbols), rt)

\* exchange.fetchPricesRest(symbols, fiatService): the fiat adapter overrides it, the
\* base class only warns "REST fetch not implemented"
fetchPricesRest(name, st, symbols, rt) ==
    IF name = "fiat" THEN fiatFetchPricesRest(st, symbols, rt) ELSE st

(***************************************************************************)
(* Monitor                                                                 *)
(*  name, symbols: the exchange it is bound to and the symbols of its      *)
(*      assets; useWebSocket as MonitorManager sets it                     *)
(*  pollIntervalId: the handle; pollTimers: interval timers running;       *)
(*  fetches: calls of exchange.fetchPricesRest so far;                     *)
(*  pc: where the last startMonitoring() call stands ("idle", "awaiting"   *)
(*      the promise of connectWebSocket, "returned");                      *)
(*  attempt: what became of the connection attempt of that call ("none",   *)
(*      "pending", "established", "failed")                                *)
(***************************************************************************)
MaxFetches == 3
\* polling intervals that may run at once
MaxPollTimers == 2

PushExchanges == {"binance", "kraken", "coinbase"}

MonitorInit(name, symbols) ==
    [ name |-> name, symbols |-> symbols, useWebSocket |-> name \in PushExchanges,
      pollIntervalId |-> FALSE, pollTimers |-> 0,
      fetches |-> 0, pc |-> "idle", attempt |-> "none" ]

\* fetchPricesViaRest(): one call of exchange.fetchPricesRest; n is the Monitor with
\* its exchange and the exchange's Price Store
fetchPricesViaRest(n, rt) ==
    [n EXCEPT !.mon.fetches = Min(@ + 1, MaxFetches),
              !.store = fetchPricesRest(n.mon.name, @, n.mon.symbols, rt)]

\* startRestPolling(): the initial fetch, then setInterval
startRestPolling(n, rt) ==
    [fetchPricesViaRest(n, rt) EXCEPT !.mon.pollIntervalId = TRUE, !.mon.pollTimers = @ + 1]

\* startMonitoring() up to its return or to the await of a pending promise
startMonitoring(n, throws, rt) ==
    IF n.mon.useWebSocket
    THEN LET e2 == connectWebSocket(n.ex, n.mon.symbols, throws, "call")
             n2 == [n EXCEPT !.ex = e2]
         IN CASE e2.callPromise = "rejected" ->
                    startRestPolling([n2 EXCEPT !.mon.pc = "returned", !.mon.attempt = "failed"], rt)
              [] e2.callPromise = "resolved" ->
                    [n2 EXCEPT !.mon.pc = "returned",
                               !.mon.attempt = IF e2.ws = "OPEN" THEN "established" ELSE "pending"]
              [] OTHER ->
                    [n2 EXCEPT !.mon.pc = "awaiting", !.mon.attempt = "pending"]
    ELSE startRestPolling([n EXCEPT !.mon.pc = "returned"], rt)

\* stopMonitoring(): clear the polling interval, disconnect the exchange
stopMonitoring(n) ==
    LET n1 == IF n.mon.pollIntervalId
              THEN [n EXCEPT !.mon.pollIntervalId = FALSE, !.mon.pollTimers = @ - 1]
              ELSE n
    IN [n1 EXCEPT !.mon.pc = "idle", !.mon.attempt = "none",
                  !.ex = disconnectWebSocket(@)]

\* the Monitor after an event of its exchange: the await in startMonitoring resumes
\* when the promise is resolved; kind is "open" or "close"
monitorAfter(m, e2, kind) ==
    [m EXCEPT !.pc = IF @ = "awaiting" /\ e2.callPromise = "resolved" THEN "returned" ELSE @,
              !.attempt = IF @ = "pending" /\ kind = "open" THEN "established"
                          ELSE IF @ = "pending" /\ kind = "close" THEN "failed"
                          ELSE @]

(***************************************************************************)
(* The exchange connection under arbitrary public calls and socket events  *)
(***************************************************************************)
Bump(n) == Min(n + 1, MaxFails)

\* the ghost that tells the first timeout armed after an open event
SinceOpenAfter(e2) ==
    IF e2.armed /\ sinceOpen = "opened" THEN "armed" ELSE sinceOpen

managerVars == <<env, exs, mons, mgr>>
serviceVars == <<fiat, conversion, exported, clock, calls, inflight, lastWrite, settled>>
metricsVars == <<assets, stores, metrics, everPositive>>

\* a caller invokes connectWebSocket(symbols)
ConnectCall ==
    /\ \E symbols \in SymbolLists, throws \in BOOLEAN :
        LET e2 == connectWebSocket(Begin(ex), symbols, throws, "call")
        IN /\ ex' = e2
           /\ fails' = IF e2.callPromise = "rejected" THEN Bump(fails) ELSE fails
           /\ lastRequested' = symbols
           /\ sinceOpen' = SinceOpenAfter(e2)
    /\ lastOp' = "connect"
    /\ intent' = "connect"
    /\ UNCHANGED <<serviceVars, mon, store, rates, managerVars, metricsVars>>

\* a caller invokes reconnect()
ReconnectCall ==
    /\ \E throws \in BOOLEAN :
        LET e2 == reconnect(Begin(ex), throws)
        IN /\ ex' = e2
           /\ fails' = IF e2.callPromise = "rejected" THEN 1 ELSE 0
           /\ sinceOpen' = SinceOpenAfter(e2)
    /\ lastOp' = "reconnect"
    /\ intent' = "connect"
    /\ UNCHANGED <<serviceVars, lastRequested, mon, store, rates, managerVars, metricsVars>>

\* a caller invokes disconnectWebSocket()
DisconnectCall ==
    /\ ex' = disconnectWebSocket(Begin(ex))
    /\ lastOp' = "disconnect"
    /\ fails' = 0
    /\ intent' = "stopped"
    /\ sinceOpen' = "na"
    /\ UNCHANGED <<serviceVars, lastRequested, mon, store, rates, managerVars, metricsVars>>

\* the open event of the current session
SocketOpen ==
    /\ ex.ws = "CONNECTING"
    /\ ex' = onopen(Begin(ex))
    /\ mon' = monitorAfter(mon, onopen(Begin(ex)), "open")
    /\ lastOp' = "open"
    /\ fails' = 0
    /\ sinceOpen' = "opened"
    /\ UNCHANGED <<serviceVars, intent, lastRequested, store, rates, managerVars, metricsVars>>

\* the error event of the current session: onerror only logs; the session is
\* going down and its close event follows
SocketError ==
    /\ ex.ws \in {"CONNECTING", "OPEN"}
    /\ ex' = [Begin(ex) EXCEPT !.ws = "CLOSING"]
    /\ lastOp' = "error"
    /\ UNCHANGED <<serviceVars, mon, fails, intent, lastRequested, sinceOpen, store, rates,
                   managerVars, metricsVars>>

\* the close event of the current session
SocketClose ==
    /\ ex.ws \in {"CONNECTING", "OPEN", "CLOSING"}
    /\ LET e2 == onclose(Begin(ex))
       IN /\ ex' = e2
          /\ mon' = monitorAfter(mon, e2, "close")
          /\ sinceOpen' = SinceOpenAfter(e2)
    /\ lastOp' = "close"
    /\ fails' = Bump(fails)
    /\ UNCHANGED <<serviceVars, intent, lastRequested, store, rates, managerVars, metricsVars>>

\* the reconnect timeout fires
ReconnectTimer ==
    /\ ex.timers > 0
    /\ \E throws \in BOOLEAN :
        LET e2 == reconnectTimerCallback(Begin(ex), throws)
        IN /\ ex' = e2
           /\ fails' = IF e2.armed THEN Bump(fails) ELSE fails
           /\ sinceOpen' = SinceOpenAfter(e2)
    /\ lastOp' = "timer"
    /\ UNCHANGED <<serviceVars, mon, intent, lastRequested, store, rates, managerVars, metricsVars>>

\* the watchdog interval fires
WatchdogTick ==
    /\ ex.watchdogs > 0
    /\ LET e2 == watchdogCallback(Begin(ex))
       IN /\ ex' = e2
          /\ sinceOpen' = SinceOpenAfter(e2)
          /\ fails' = IF e2.armed THEN Bump(fails) ELSE fails
    /\ lastOp' = "watchdog"
    /\ UNCHANGED <<serviceVars, mon, intent, lastRequested, store, rates, managerVars, metricsVars>>

\* ws.onmessage: lastMessageTime = Date.now(), then parse and hand to the adapter
SocketMessage ==
    /\ ex.ws = "OPEN"
    /\ ex' = [Begin(ex) EXCEPT !.silence = 0]
    /\ \E frame \in Frames : store' = handleMessage(store, frame)
    /\ lastOp' = "message"
    /\ UNCHANGED <<serviceVars, mon, fails, intent, lastRequested, sinceOpen, rates,
                   managerVars, metricsVars>>

\* the events a session that was dropped can still deliver
LateEvents ==
    {[kind |-> k] : k \in {"open", "error", "close"}}
    \cup {[kind |-> "message", frame |-> f] : f \in Frames}

\* the sessions that were dropped with their handlers still attached
handlersLeft(e) == e.attached - (IF e.ws = "none" THEN 0 ELSE 1)

\* an event of a dropped session: the handler it finds is null after
\* cleanupWebSocket; a handler that were left would run on this (n: the exchange
\* with its Price Store)
lateEvent(n, event) ==
    IF handlersLeft(n.ex) <= 0 THEN n
    ELSE IF event.kind = "open"
         THEN [n EXCEPT !.ex = startWatchdog([n.ex EXCEPT !.silence = 0,
                                                           !.reconnecting = FALSE,
                                                           !.backoff = INITIAL_BACKOFF])]
    ELSE IF event.kind = "message"
         THEN [n EXCEPT !.ex.silence = 0, !.store = handleMessage(n.store, event.frame)]
    ELSE IF event.kind = "close"
         THEN [n EXCEPT !.ex = scheduleReconnect(n.ex)]
    ELSE n

\* the detached sessions deliver their last events
StaleSessionEvent ==
    /\ ex.stale
    /\ \E event \in LateEvents :
        LET n2 == lateEvent([ex |-> Begin(ex), store |-> store], event)
        IN /\ ex' = [n2.ex EXCEPT !.stale = FALSE]
           /\ store' = n2.store
    /\ lastOp' = "stale"
    /\ UNCHANGED <<serviceVars, mon, fails, intent, lastRequested, sinceOpen, rates,
                   managerVars, metricsVars>>

vars == <<ex, mon, store, lastOp, fails, intent, lastRequested, sinceOpen,
          env, exs, mons, mgr, assets, stores, rates, metrics, everPositive,
          fiat, conversion, exported, clock, calls, inflight, lastWrite, settled>>

\* the variables no exchange, Monitor or MonitorManager run uses
IdleManager ==
    /\ env = <<>> /\ exs = <<>> /\ mons = <<>>
    /\ mgr = [pc |-> "unused"]

IdleMetrics ==
    /\ assets = <<>> /\ stores = <<>> /\ metrics = <<>> /\ everPositive = {}

IdleStore ==
    /\ inflight = 0 /\ lastWrite = <<>>

IdleService ==
    /\ fiat = [pc |-> "unused"] /\ conversion = <<>> /\ exported = <<>>
    /\ clock = 0 /\ calls = <<>>
    /\ IdleStore
    /\ settled = FALSE

Init ==
    /\ ex = ExchangeInit
    /\ mon = MonitorInit("binance", <<"BTC", "ETH">>)
    /\ store = EmptyStore
    /\ rates = RatesInit
    /\ lastOp = "init"
    /\ fails = 0
    /\ intent = "none"
    /\ lastRequested = <<>>
    /\ sinceOpen = "na"
    /\ IdleManager
    /\ IdleMetrics
    /\ IdleService

Next ==
    \/ ConnectCall
    \/ ReconnectCall
    \/ DisconnectCall
    \/ SocketOpen
    \/ SocketError
    \/ SocketClose
    \/ ReconnectTimer
    \/ WatchdogTick
    \/ SocketMessage
    \/ StaleSessionEvent

Spec == Init /\ [][Next]_vars

(***************************************************************************)
(* One Monitor with its exchange: startMonitoring / stopMonitoring, the    *)
(* polling interval, the rate refresh, and the events of the exchange      *)
(***************************************************************************)
Node == [mon |-> mon, ex |-> Begin(ex), store |-> store]

\* startMonitoring() is called on a Monitor that is not monitoring
StartMonitoring ==
    /\ mon.pc = "idle"
    /\ \E throws \in BOOLEAN :
        LET n2 == startMonitoring(Node, throws, rates)
        IN /\ mon' = n2.mon /\ ex' = n2.ex /\ store' = n2.store
           /\ fails' = IF n2.ex.callPromise = "rejected" /\ mon.useWebSocket
                       THEN Bump(fails) ELSE fails
           /\ sinceOpen' = SinceOpenAfter(n2.ex)
    /\ lastOp' = "start"
    /\ intent' = IF mon.useWebSocket THEN "connect" ELSE intent
    /\ lastRequested' = IF mon.useWebSocket THEN mon.symbols ELSE lastRequested
    /\ UNCHANGED <<serviceVars, rates, managerVars, metricsVars>>

\* stopMonitoring() is called
StopMonitoring ==
    /\ LET n2 == stopMonitoring(Node)
       IN mon' = n2.mon /\ ex' = n2.ex /\ store' = n2.store
    /\ lastOp' = "stop"
    /\ fails' = 0
    /\ intent' = "stopped"
    /\ sinceOpen' = "na"
    /\ UNCHANGED <<serviceVars, lastRequested, rates, managerVars, metricsVars>>

\* the polling interval fires
PollTick ==
    /\ mon.pollTimers > 0
    /\ LET n2 == fetchPricesViaRest(Node, rates)
       IN mon' = n2.mon /\ ex' = n2.ex /\ store' = n2.store
    /\ lastOp' = "poll"
    /\ UNCHANGED <<serviceVars, fails, intent, lastRequested, sinceOpen, rates, managerVars, metricsVars>>

\* FiatService's refresh interval fires: the answer is parsed and copied, or the
\* fetch fails and the error is logged
RatesRefresh ==
    /\ \/ \E data \in RateTables : rates' = updateRates(rates, data)
       \/ rates' = rates
    /\ lastOp' = "rates"
    /\ UNCHANGED <<serviceVars, ex, mon, store, fails, intent, lastRequested, sinceOpen,
                   managerVars, metricsVars>>

\* startMonitoring() is called again after an earlier call has returned
StartMonitoringAgain ==
    /\ mon.pc = "returned"
    /\ mon.pollTimers < MaxPollTimers
    /\ \E throws \in BOOLEAN :
        LET n2 == startMonitoring(Node, throws, rates)
        IN /\ mon' = n2.mon /\ ex' = n2.ex /\ store' = n2.store
           /\ fails' = IF n2.ex.callPromise = "rejected" /\ mon.useWebSocket
                       THEN Bump(fails) ELSE fails
           /\ sinceOpen' = SinceOpenAfter(n2.ex)
    /\ lastOp' = "start"
    /\ intent' = IF mon.useWebSocket THEN "connect" ELSE intent
    /\ lastRequested' = IF mon.useWebSocket THEN mon.symbols ELSE lastRequested
    /\ UNCHANGED <<serviceVars, rates, managerVars, metricsVars>>

MonitorSpecInit ==
    /\ ex = ExchangeInit
    /\ mon \in {MonitorInit("binance", <<"BTC", "ETH">>), MonitorInit("fiat", <<"EUR", "GBP">>)}
    /\ store = EmptyStore
    /\ rates \in {RatesInit} \cup {updateRates(RatesInit, data) : data \in RateTables}
    /\ lastOp = "init"
    /\ fails = 0
    /\ intent = "none"
    /\ lastRequested = <<>>
    /\ sinceOpen = "na"
    /\ IdleManager
    /\ IdleMetrics
    /\ IdleService

MonitorNext ==
    \/ StartMonitoring
    \/ StopMonitoring
    \/ PollTick
    \/ RatesRefresh
    \/ SocketOpen
    \/ SocketError
    \/ SocketClose
    \/ ReconnectTimer
    \/ WatchdogTick
    \/ SocketMessage
    \/ StaleSessionEvent

SpecMonitor == MonitorSpecInit /\ [][MonitorNext]_vars

\* the same Monitor under any sequence of startMonitoring and stopMonitoring calls,
\* with the rate table as the constructor left it
RestartSpecInit ==
    /\ MonitorSpecInit
    /\ rates = RatesInit

RestartNext ==
    \/ StartMonitoring
    \/ StartMonitoringAgain
    \/ StopMonitoring
    \/ PollTick
    \/ SocketOpen
    \/ SocketError
    \/ SocketClose
    \/ ReconnectTimer
    \/ WatchdogTick
    \/ SocketMessage
    \/ StaleSessionEvent

SpecRestart == RestartSpecInit /\ [][RestartNext]_vars

\* the rate refresh where it is read: fiatService.getRate is called by the poll of
\* the fiat exchange only
FiatRatesRefresh == mon.name = "fiat" /\ RatesRefresh

\* the Monitor under start and stop calls while its prices keep arriving
StoppedNext ==
    \/ StartMonitoring
    \/ StartMonitoringAgain
    \/ StopMonitoring
    \/ PollTick
    \/ FiatRatesRefresh
    \/ SocketOpen
    \/ SocketClose
    \/ ReconnectTimer
    \/ SocketMessage
    \/ StaleSessionEvent

SpecStopped == MonitorSpecInit /\ [][StoppedNext]_vars

(***************************************************************************)
(* MonitorManager                                                          *)
(***************************************************************************)
\* the keys of EXCHANGE_REGISTRY
Registry == {"fiat", "binance", "kraken", "coinbase"}

\* the exchanges a run of the manager may build
Built == {"binance", "kraken", "fiat"}

Asset(symbol, quantity, exchange, currency, owner) ==
    [ symbol |-> symbol, quantity |-> quantity, exchange |-> exchange,
      currency |-> currency, owner |-> owner ]

\* the config.assets lists of the runs
Configs ==
    { << Asset("BTC", Num(2), "binance", "USD", "alice"),
         Asset("ETH", Rat(1, 2), "kraken", "USD", "alice"),
         Asset("EUR", Num(100), "fiat", "USD", "bob") >>,
      << Asset("ETH", Num(1), "unknown-ex", "USD", "bob"),
         Asset("BTC", Num(2), "binance", "USD", "alice"),
         Asset("BTC", Num(3), "binance", "EUR", "bob"),
         Asset("ETH", Num(-1), "kraken", "GBP", "alice") >>,
      << Asset("EUR", Num(100), "fiat", "USD", "bob"),
         Asset("GBP", Num(10), "fiat", "EUR", "bob"),
         Asset("BTC", Num(2), "kraken", "USD", "alice"),
         Asset("BTC", Num(2), "kraken", "EUR", "bob") >>,
      << Asset("BTC", Num(2), "binance", "USD", "alice"),
         Asset("BTC", Num(1), "kraken", "USD", "bob") >> }

Range(seq) == {seq[k] : k \in 1..Len(seq)}

\* the keys of a Map filled in the order of seq: first appearance order
RECURSIVE Distinct(_)
Distinct(seq) ==
    IF seq = <<>> THEN <<>>
    ELSE LET rest == Distinct(SelectSeq(Tail(seq), LAMBDA x : x # Head(seq)))
         IN <<Head(seq)>> \o rest

SymbolsOf(as) == [k \in 1..Len(as) |-> as[k].symbol]
ExchangesOf(as) == [k \in 1..Len(as) |-> as[k].exchange]

\* initialize(): assetsByExchange, its keys in insertion order and its values
groupNames(as) == Distinct(ExchangesOf(as))
groupAssets(as, name) == SelectSeq(as, LAMBDA a : a.exchange = name)

ManagerInit ==
    [ pc |-> "new", i |-> 0, monitors |-> <<>>, unsupportedAssets |-> <<>>,
      assetMonitors |-> [s \in Symbols |-> "none"] ]

\* createExchangeMonitor that skips a group without a registry entry and records nothing
createExchangeMonitor_ForgetsUnknown(st, ev, name, as, rt) ==
    IF name \notin Registry
    THEN st
    ELSE IF ev[name] = "ctorThrows"
    THEN [st EXCEPT !.mgr.unsupportedAssets = @ \o as]
    ELSE LET m == MonitorInit(name, Distinct(SymbolsOf(as)))
             n2 == startMonitoring([mon |-> m, ex |-> Begin(st.exs[name]),
                                    store |-> st.stores[name]],
                                   ev[name] = "urlThrows", rt)
         IN [st EXCEPT !.mgr.monitors = Append(@, name),
                       !.mgr.assetMonitors =
                            [s \in Symbols |-> IF s \in Range(SymbolsOf(as)) THEN name ELSE @[s]],
                       !.mons[name] = n2.mon,
                       !.exs[name] = n2.ex,
                       !.stores[name] = n2.store]

\* createExchangeMonitor(exchangeName, assets) up to its return or to the await of
\* monitor.startMonitoring(); st holds the exchanges, Monitors, Price Stores and
\* the manager; ev[name] tells what the adapter of name does
createExchangeMonitor(st, ev, name, as, rt) ==
    IF name \notin Registry \/ ev[name] = "ctorThrows"
    THEN [st EXCEPT !.mgr.unsupportedAssets = @ \o as]
    ELSE LET m == MonitorInit(name, Distinct(SymbolsOf(as)))
             n2 == startMonitoring([mon |-> m, ex |-> Begin(st.exs[name]),
                                    store |-> st.stores[name]],
                                   ev[name] = "urlThrows", rt)
         IN [st EXCEPT !.mgr.monitors = Append(@, name),
                       !.mgr.assetMonitors =
                            [s \in Symbols |-> IF s \in Range(SymbolsOf(as)) THEN name ELSE @[s]],
                       !.mons[name] = n2.mon,
                       !.exs[name] = n2.ex,
                       !.stores[name] = n2.store]

\* BaseExchange.isWebSocketConnected()
isWebSocketConnected(e) == e.ws = "OPEN"

\* getStatus(): per Monitor the connection and the symbols mapped to it, and the
\* unsupported assets with their exchanges
getStatus(m, es) ==
    [ supported |->
        [ name \in Range(m.monitors) |->
            [ connected |-> isWebSocketConnected(es[name]),
              type |-> IF isWebSocketConnected(es[name]) THEN "WebSocket" ELSE "REST",
              assets |-> {sym \in Symbols : m.assetMonitors[sym] = name} ] ],
      unsupported |->
        [ exchanges |-> Distinct(ExchangesOf(m.unsupportedAssets)),
          assetCount |-> Len(m.unsupportedAssets),
          assets |-> SymbolsOf(m.unsupportedAssets) ] ]

ManagerState == [exs |-> exs, mons |-> mons, stores |-> stores, mgr |-> mgr]

exchangeVars == <<ex, mon, store, fails, intent, lastRequested, sinceOpen>>

\* initialize(config) up to its loop: the rate fetch of fiatService.initialize()
\* answers or fails, and the assets are grouped
Initialize ==
    /\ mgr.pc = "new"
    /\ rates' \in {rates} \cup {updateRates(rates, data) : data \in RateTables}
    /\ mgr' = [mgr EXCEPT !.pc = "running", !.i = 1]
    /\ lastOp' = "initialize"
    /\ UNCHANGED <<serviceVars, exchangeVars, env, assets, exs, mons, stores, metrics, everPositive>>

\* one turn of the loop of initialize(): await createExchangeMonitor(name, assets);
\* the loop goes on when the call returns and waits when startMonitoring() waits.
\* No event is delivered between two turns: the await of a call that returned only
\* yields to the microtask queue.
NextGroup ==
    /\ mgr.pc = "running"
    /\ LET names == groupNames(assets)
           name == names[mgr.i]
           st2 == createExchangeMonitor(ManagerState, env, name, groupAssets(assets, name), rates)
           waits == name \in Range(st2.mgr.monitors) /\ st2.mons[name].pc = "awaiting"
       IN IF mgr.i > Len(names)
          THEN /\ mgr' = [mgr EXCEPT !.pc = "done"]
               /\ UNCHANGED <<exs, mons, stores>>
          ELSE /\ exs' = st2.exs /\ mons' = st2.mons /\ stores' = st2.stores
               /\ mgr' = IF waits THEN [st2.mgr EXCEPT !.pc = "awaiting"]
                                  ELSE [st2.mgr EXCEPT !.i = @ + 1]
    /\ lastOp' = "group"
    /\ UNCHANGED <<serviceVars, exchangeVars, env, assets, rates, metrics, everPositive>>

\* the exchanges that have a session or a timer to deliver events
Live == IF mgr.pc = "running" THEN {} ELSE Range(mgr.monitors)

\* the open event of the session of one exchange; initialize() goes on when it was
\* waiting for this Monitor
MgrSocketOpen ==
    /\ \E name \in Live :
        /\ exs[name].ws = "CONNECTING"
        /\ LET e2 == onopen(Begin(exs[name]))
               m2 == monitorAfter(mons[name], e2, "open")
               resumes == /\ mgr.pc = "awaiting"
                          /\ groupNames(assets)[mgr.i] = name
                          /\ m2.pc = "returned"
           IN /\ exs' = [exs EXCEPT ![name] = e2]
              /\ mons' = [mons EXCEPT ![name] = m2]
              /\ mgr' = IF resumes THEN [mgr EXCEPT !.pc = "running", !.i = @ + 1] ELSE mgr
    /\ lastOp' = "open"
    /\ UNCHANGED <<serviceVars, exchangeVars, env, assets, stores, rates, metrics, everPositive>>

\* the close event of the session of one exchange
MgrSocketClose ==
    /\ \E name \in Live :
        /\ exs[name].ws \in {"CONNECTING", "OPEN", "CLOSING"}
        /\ LET e2 == onclose(Begin(exs[name]))
           IN /\ exs' = [exs EXCEPT ![name] = e2]
              /\ mons' = [mons EXCEPT ![name] = monitorAfter(@, e2, "close")]
    /\ lastOp' = "close"
    /\ UNCHANGED <<serviceVars, exchangeVars, env, assets, stores, mgr, rates, metrics, everPositive>>

\* the reconnect timeout of one exchange fires
MgrReconnectTimer ==
    /\ \E name \in Live :
        /\ exs[name].timers > 0
        /\ exs' = [exs EXCEPT ![name] =
                        reconnectTimerCallback(Begin(@), env[name] = "urlThrows")]
    /\ lastOp' = "timer"
    /\ UNCHANGED <<serviceVars, exchangeVars, env, assets, stores, mons, mgr, rates, metrics, everPositive>>

\* the polling interval of one Monitor fires
MgrPollTick ==
    /\ \E name \in Live :
        /\ mons[name].pollTimers > 0
        /\ LET n2 == fetchPricesViaRest([mon |-> mons[name], ex |-> exs[name],
                                         store |-> stores[name]], rates)
           IN /\ mons' = [mons EXCEPT ![name] = n2.mon]
              /\ stores' = [stores EXCEPT ![name] = n2.store]
    /\ lastOp' = "poll"
    /\ UNCHANGED <<serviceVars, exchangeVars, env, assets, exs, mgr, rates, metrics, everPositive>>

\* a frame arrives on the open session of the Binance exchange
MgrSocketMessage ==
    /\ "binance" \in Live
    /\ exs["binance"].ws = "OPEN"
    /\ exs' = [exs EXCEPT !["binance"] = [Begin(@) EXCEPT !.silence = 0]]
    /\ \E frame \in Frames :
        stores' = [stores EXCEPT !["binance"] = handleMessage(@, frame)]
    /\ lastOp' = "message"
    /\ UNCHANGED <<serviceVars, exchangeVars, env, assets, mons, mgr, rates, metrics, everPositive>>


(***************************************************************************)
(* Asset metrics                                                           *)
(***************************************************************************)
\* an inclusion test that lets a price of 0 through
includesAsset_NonNegative(pd) == pd # NoSample /\ pd.price # NaN /\ pd.price.n >= 0

\* priceData && priceData.price > 0
includesAsset(pd) == pd # NoSample /\ GtZero(pd.price)

\* an entry that keeps the asset's currency when the conversion throws
assetEntry_KeepsDisplayCurrency(a, pd, rt) ==
    LET conv1 == convert(rt, pd.price, pd.currency, a.currency)
        price == IF pd.currency # a.currency /\ conv1.ok THEN conv1.value ELSE pd.price
    IN [ symbol |-> a.symbol, quantity |-> a.quantity, currentPrice |-> price,
         value |-> RMul(a.quantity, price), currency |-> a.currency,
         exchange |-> a.exchange, owner |-> a.owner ]

\* an entry whose value is computed from the stored price, not the converted one
assetEntry_RawValue(a, pd, rt) ==
    LET conv == convert(rt, pd.price, pd.currency, a.currency)
        differs == pd.currency # a.currency
        price == IF differs /\ conv.ok THEN conv.value ELSE pd.price
        displayCurrency == IF differs /\ ~conv.ok THEN pd.currency ELSE a.currency
    IN [ symbol |-> a.symbol, quantity |-> a.quantity, currentPrice |-> price,
         value |-> RMul(a.quantity, pd.price), currency |-> displayCurrency,
         exchange |-> a.exchange, owner |-> a.owner ]

\* the entry pushed for asset a with the stored sample pd: the price is converted
\* when the currencies differ, and a conversion that throws keeps the sample's
\* price and currency
assetEntry(a, pd, rt) ==
    LET conv == convert(rt, pd.price, pd.currency, a.currency)
        differs == pd.currency # a.currency
        price == IF differs /\ conv.ok THEN conv.value ELSE pd.price
        displayCurrency == IF differs /\ ~conv.ok THEN pd.currency ELSE a.currency
    IN [ symbol |-> a.symbol, quantity |-> a.quantity, currentPrice |-> price,
         value |-> RMul(a.quantity, price), currency |-> displayCurrency,
         exchange |-> a.exchange, owner |-> a.owner ]

\* Monitor.getAssetMetrics(): the loop over this.assets, st the exchange's Price Store
RECURSIVE getAssetMetrics(_, _, _)
getAssetMetrics(as, st, rt) ==
    IF as = <<>> THEN <<>>
    ELSE LET a == Head(as)
             pd == st[a.symbol]
         IN (IF includesAsset(pd) THEN <<assetEntry(a, pd, rt)>> ELSE <<>>)
            \o getAssetMetrics(Tail(as), st, rt)

\* a read that walks the Monitors from the last created to the first
RECURSIVE managerGetAssetMetrics_Reversed(_, _, _, _)
managerGetAssetMetrics_Reversed(names, as, sts, rt) ==
    IF names = <<>> THEN <<>>
    ELSE managerGetAssetMetrics_Reversed(Tail(names), as, sts, rt)
         \o getAssetMetrics(groupAssets(as, Head(names)), sts[Head(names)], rt)

\* MonitorManager.getAssetMetrics(): the entries of every Monitor, in the order of
\* this.monitors
RECURSIVE managerGetAssetMetrics(_, _, _, _)
managerGetAssetMetrics(names, as, sts, rt) ==
    IF names = <<>> THEN <<>>
    ELSE getAssetMetrics(groupAssets(as, Head(names)), sts[Head(names)], rt)
         \o managerGetAssetMetrics(Tail(names), as, sts, rt)

\* createExchangeMonitor: assetsMap, the Record from symbol to quantity that the
\* Monitor is built with; a later asset with the same symbol overwrites the quantity
assetsMap(as) ==
    LET keys == Distinct(SymbolsOf(as))
        last(sym) == CHOOSE k \in 1..Len(as) :
                        /\ as[k].symbol = sym
                        /\ \A j \in (k + 1)..Len(as) : as[j].symbol # sym
    IN [i \in 1..Len(keys) |-> [symbol |-> keys[i], quantity |-> as[last(keys[i])].quantity]]

\* Config.get("assets").find((a) => a.symbol === symbol)?.currency || currency
configCurrency(cfg, symbol, currency) ==
    LET hits == SelectSeq(cfg, LAMBDA a : a.symbol = symbol)
    IN IF hits = <<>> THEN currency ELSE Head(hits).currency

\* Monitor.getAssetMetrics() of the Monitor built with assetsMap: one entry per key
RECURSIVE getAssetMetricsOfMap(_, _, _, _)
getAssetMetricsOfMap(amap, cfg, st, rt) ==
    IF amap = <<>> THEN <<>>
    ELSE LET symbol == Head(amap).symbol
             quantity == Head(amap).quantity
             pd == st[symbol]
             display == configCurrency(cfg, symbol, pd.currency)
             conv1 == convert(rt, pd.price, pd.currency, display)
             differs == pd.currency # display
             price == IF differs /\ conv1.ok THEN conv1.value ELSE pd.price
             displayCurrency == IF differs /\ ~conv1.ok THEN pd.currency ELSE display
         IN (IF includesAsset(pd)
             THEN << [ symbol |-> symbol, quantity |-> quantity, currentPrice |-> price,
                       value |-> RMul(quantity, price), currency |-> displayCurrency ] >>
             ELSE <<>>)
            \o getAssetMetricsOfMap(Tail(amap), cfg, st, rt)

\* MonitorManager.getAssetMetrics() over Monitors built with assetsMap
RECURSIVE managerGetAssetMetricsOfMap(_, _, _, _)
managerGetAssetMetricsOfMap(names, as, sts, rt) ==
    IF names = <<>> THEN <<>>
    ELSE getAssetMetricsOfMap(assetsMap(groupAssets(as, Head(names))), as, sts[Head(names)], rt)
         \o managerGetAssetMetricsOfMap(Tail(names), as, sts, rt)

\* the samples an exchange may store: updatePrice takes what the adapter parsed
SamplePrices == {Num(5), Num(0), Num(-1), NaN}
SampleCurrencies == {"USD", "USDT"}

\* an exchange with a Monitor stores a sample for the symbol of one of its assets
PriceUpdate ==
    /\ \E k \in 1..Len(assets), p \in SamplePrices, c \in SampleCurrencies :
        LET a == assets[k]
        IN /\ a.exchange \in Range(mgr.monitors)
           /\ stores' = [stores EXCEPT ![a.exchange] = updatePrice(@, a.symbol, p, c)]
           /\ everPositive' = IF GtZero(p) THEN everPositive \cup {<<a.exchange, a.symbol>>}
                              ELSE everPositive
    /\ metrics' = <<>>
    /\ lastOp' = "price"
    /\ UNCHANGED <<serviceVars, exchangeVars, managerVars, assets, rates>>

\* FiatService's refresh answers
MetricsRatesRefresh ==
    /\ \E data \in RateTables : rates' = updateRates(rates, data)
    /\ metrics' = <<>>
    /\ lastOp' = "rates"
    /\ UNCHANGED <<serviceVars, exchangeVars, managerVars, assets, stores, everPositive>>

\* the HTTP handler, which serves once initialize() has returned, reads
\* getAssetMetrics()
ReadMetrics ==
    /\ mgr.pc = "done"
    /\ metrics' = managerGetAssetMetrics(mgr.monitors, assets, stores, rates)
    /\ lastOp' = "read"
    /\ UNCHANGED <<serviceVars, exchangeVars, managerVars, assets, stores, rates, everPositive>>

\* the HTTP handler reads getAssetMetrics() of a manager whose Monitors were built
\* with assetsMap
ReadMetricsOfMap ==
    /\ mgr.pc = "done"
    /\ metrics' = managerGetAssetMetricsOfMap(mgr.monitors, assets, stores, rates)
    /\ lastOp' = "readMap"
    /\ UNCHANGED <<serviceVars, exchangeVars, managerVars, assets, stores, rates, everPositive>>

\* a run of the MonitorManager from its construction
ManagerSpecInit ==
    /\ ex = ExchangeInit
    /\ mon = MonitorInit("binance", <<"BTC", "ETH">>)
    /\ store = EmptyStore
    /\ rates = RatesInit
    /\ lastOp = "init"
    /\ fails = 0
    /\ intent = "none"
    /\ lastRequested = <<>>
    /\ sinceOpen = "na"
    /\ assets \in Configs
    /\ env \in [Built -> {"ok", "ctorThrows", "urlThrows"}]
    /\ exs = [name \in Built |-> ExchangeInit]
    /\ mons = [name \in Built |-> MonitorInit(name, <<>>)]
    /\ stores = [name \in Built |-> EmptyStore]
    /\ mgr = ManagerInit
    /\ metrics = <<>>
    /\ everPositive = {}
    /\ IdleService

ManagerNext ==
    \/ Initialize
    \/ NextGroup
    \/ MgrSocketOpen
    \/ MgrSocketClose
    \/ MgrReconnectTimer
    \/ MgrPollTick
    \/ MgrSocketMessage
    \/ ReadMetrics

SpecManager == ManagerSpecInit /\ [][ManagerNext]_vars

\* the manager after initialize() has built a Monitor for every registry group
MetricsSpecInit ==
    /\ ex = ExchangeInit
    /\ mon = MonitorInit("binance", <<"BTC", "ETH">>)
    /\ store = EmptyStore
    /\ rates = RatesInit
    /\ lastOp = "init"
    /\ fails = 0
    /\ intent = "none"
    /\ lastRequested = <<>>
    /\ sinceOpen = "na"
    /\ assets \in Configs
    /\ env = [name \in Built |-> "ok"]
    /\ exs = [name \in Built |-> ExchangeInit]
    /\ mons = [name \in Built |->
                 MonitorInit(name, Distinct(SymbolsOf(groupAssets(assets, name))))]
    /\ stores = [name \in Built |-> EmptyStore]
    /\ mgr = [ManagerInit EXCEPT
                 !.pc = "done",
                 !.monitors = SelectSeq(groupNames(assets), LAMBDA n : n \in Registry)]
    /\ metrics = <<>>
    /\ everPositive = {}
    /\ IdleService

MetricsNext ==
    \/ PriceUpdate
    \/ MetricsRatesRefresh
    \/ ReadMetrics
    \/ ReadMetricsOfMap

SpecMetrics == MetricsSpecInit /\ [][MetricsNext]_vars

(***************************************************************************)
(* FiatService: the three variants of the class, their refresh and convert *)
(***************************************************************************)
MaxUpdates == 3

\* the variants of FiatService, by the file that holds them
Variants == {"part_000", "part_001", "part_002"}

\* the currency whose rate the constructor sets to 1
AnchorOf(variant) == IF variant = "part_001" THEN "EUR" ELSE "USD"

\* the table after the constructor
RatesInitOf(variant) == [c \in Codes |-> IF c = AnchorOf(variant) THEN Num(1) ELSE NoRate]

\* the Cube lists of the XML source, after parseFloat of each rate attribute
XmlTables ==
    { [c \in Codes |-> CASE c = "USD" -> Rat(11, 10) [] c = "GBP" -> Rat(4, 5)
                         [] OTHER -> NoRate],
      [c \in Codes |-> CASE c = "USD" -> Rat(6, 5) [] c = "GBP" -> NaN
                         [] OTHER -> NoRate] }

\* what a refresh can meet: fetch rejects, the body does not parse, the body parses
\* but holds no rates (data.rates undefined / no Cube list), or rates arrive
Answers(variant) ==
    {[kind |-> "networkError"], [kind |-> "unparsable"], [kind |-> "noRates"]}
    \cup {[kind |-> "rates", rates |-> t] :
            t \in IF variant = "part_001" THEN XmlTables ELSE RateTables}

FiatInit(variant) ==
    [ variant |-> variant, pc |-> "new", lastUpdate |-> 0, intervalId |-> FALSE,
      timers |-> 0, answer |-> "none", raised |-> FALSE ]

\* updateRates() as a whole, with its try/catch. The JSON variants throw before the
\* first write unless data.rates is there; the XML variant reads a missing Cube list
\* as the empty list and goes on to set lastUpdate.
refreshRates(f, rt, answer) ==
    LET completes == \/ answer.kind = "rates"
                     \/ f.variant = "part_001" /\ answer.kind = "noRates"
    IN [ rates |-> IF answer.kind = "rates" THEN updateRates(rt, answer.rates) ELSE rt,
         fiat |-> [f EXCEPT !.lastUpdate = IF completes THEN @ + 1 ELSE @,
                            !.answer = answer.kind] ]

\* startPeriodicUpdate(): setInterval
startPeriodicUpdate(f) == [f EXCEPT !.intervalId = TRUE, !.timers = @ + 1]

\* stop(): clearInterval
stopFiat(f) ==
    IF f.intervalId THEN [f EXCEPT !.intervalId = FALSE, !.timers = @ - 1, !.pc = "stopped"]
    ELSE [f EXCEPT !.pc = "stopped"]

\* convert of the variant in use
convertOf(variant, rt, amount, from, to) ==
    CASE variant = "part_000" -> convert(rt, amount, from, to)
      [] variant = "part_001" -> convertEurAnchor(rt, amount, from, to)
      [] OTHER -> convertMulDiv(rt, amount, from, to)

Amounts == {Num(10), Num(0), Num(-3), Rat(1, 3), NaN}
ConvCodes == {"USD", "USDT", "EUR", "GBP"}

NoConversion ==
    [ called |-> FALSE, amount |-> NaN, from |-> "none", to |-> "none",
      ok |-> FALSE, value |-> NaN, backCalled |-> FALSE, backOk |-> FALSE, backValue |-> NaN ]

otherVars == <<exchangeVars, managerVars, metricsVars, exported, clock, calls, inflight,
               lastWrite, settled>>

\* initialize(): await updateRates(), then startPeriodicUpdate()
FiatInitialize ==
    /\ fiat.pc = "new"
    /\ \E answer \in Answers(fiat.variant) :
        LET r == refreshRates(fiat, rates, answer)
        IN /\ rates' = r.rates
           /\ fiat' = [startPeriodicUpdate(r.fiat) EXCEPT !.pc = "ready"]
    /\ conversion' = NoConversion
    /\ lastOp' = "fiatInit"
    /\ UNCHANGED otherVars

\* the refresh interval fires: updateRates()
FiatRefreshTick ==
    /\ fiat.timers > 0
    /\ fiat.lastUpdate < MaxUpdates
    /\ \E answer \in Answers(fiat.variant) :
        LET r == refreshRates(fiat, rates, answer)
        IN rates' = r.rates /\ fiat' = r.fiat
    /\ conversion' = NoConversion
    /\ lastOp' = "fiatTick"
    /\ UNCHANGED otherVars

\* stop()
FiatStop ==
    /\ fiat.pc = "ready"
    /\ fiat' = stopFiat(fiat)
    /\ conversion' = NoConversion
    /\ lastOp' = "fiatStop"
    /\ UNCHANGED <<rates, otherVars>>

\* a caller converts an amount
FiatConvert ==
    /\ \E amount \in Amounts, from \in ConvCodes, to \in ConvCodes :
        LET r == convertOf(fiat.variant, rates, amount, from, to)
        IN /\ conversion' = [NoConversion EXCEPT !.called = TRUE, !.amount = amount,
                                                 !.from = from, !.to = to,
                                                 !.ok = r.ok, !.value = r.value]
           /\ fiat' = [fiat EXCEPT !.raised = @ \/ ~r.ok]
    /\ lastOp' = "convert"
    /\ UNCHANGED <<rates, otherVars>>

\* the caller converts the result back, with no refresh in between
FiatConvertBack ==
    /\ conversion.called /\ conversion.ok /\ ~conversion.backCalled
    /\ LET r == convertOf(fiat.variant, rates, conversion.value, conversion.to, conversion.from)
       IN /\ conversion' = [conversion EXCEPT !.backCalled = TRUE, !.backOk = r.ok,
                                              !.backValue = r.value]
          /\ fiat' = [fiat EXCEPT !.raised = @ \/ ~r.ok]
    /\ lastOp' = "convertBack"
    /\ UNCHANGED <<rates, otherVars>>

FiatSpecInit ==
    /\ ex = ExchangeInit
    /\ mon = MonitorInit("binance", <<"BTC", "ETH">>)
    /\ store = EmptyStore
    /\ lastOp = "init"
    /\ fails = 0
    /\ intent = "none"
    /\ lastRequested = <<>>
    /\ sinceOpen = "na"
    /\ IdleManager
    /\ IdleMetrics
    /\ exported = <<>>
    /\ clock = 0 /\ calls = <<>>
    /\ IdleStore
    /\ settled = FALSE
    /\ settled = FALSE
    /\ conversion = NoConversion
    /\ \E variant \in Variants :
        /\ fiat = FiatInit(variant)
        /\ rates = RatesInitOf(variant)

FiatNext ==
    \/ FiatInitialize
    \/ FiatRefreshTick
    \/ FiatStop
    \/ FiatConvert
    \/ FiatConvertBack

SpecFiat == FiatSpecInit /\ [][FiatNext]_vars

(***************************************************************************)
(* MetricsExporter.generateOpenMetrics                                     *)
(* A string is a sequence of pieces: a piece is a run of ordinary          *)
(* characters, or one of the characters that escaping looks at: "\\" the   *)
(* backslash, "\"" the quote, "NL" the newline, "n" the letter n.          *)
(***************************************************************************)
MaxEntries == 3

RECURSIVE Concat(_)
Concat(seqs) == IF seqs = <<>> THEN <<>> ELSE Head(seqs) \o Concat(Tail(seqs))

\* String.prototype.replace(/piece/g, repl)
RECURSIVE replaceAll(_, _, _)
replaceAll(value, piece, repl) ==
    IF value = <<>> THEN <<>>
    ELSE (IF Head(value) = piece THEN repl ELSE <<Head(value)>>)
         \o replaceAll(Tail(value), piece, repl)

\* escapeLabelValue: backslashes first, then newlines, then quotes
escapeLabelValue(value) ==
    replaceAll(replaceAll(replaceAll(value, "\\", <<"\\", "\\">>),
                          "NL", <<"\\", "n">>),
               "\"", <<"\\", "\"">>)

\* { ...portfolioLabels, owner }: an owner key of the custom labels keeps its place
\* and takes the owner of the group, otherwise owner is the last key
withOwner(labels, owner) ==
    IF \E k \in 1..Len(labels) : labels[k][1] = "owner"
    THEN [k \in 1..Len(labels) |-> IF labels[k][1] = "owner" THEN <<"owner", owner>>
                                   ELSE labels[k]]
    ELSE Append(labels, <<"owner", owner>>)

\* generatePortfolioLabels: key="escaped value" for every entry, joined by commas
generatePortfolioLabels(labels) ==
    [k \in 1..Len(labels) |-> <<labels[k][1], escapeLabelValue(labels[k][2])>>]

\* one sample line: name{labels} value [timestamp]. `${number}` prints a number so
\* that reading it gives the number back, so the line keeps the number
Line(name, labels, value, ts) ==
    [name |-> name, labels |-> labels, value |-> value, timestamp |-> ts]

Families ==
    << "asset_price", "asset_quantity", "asset_value", "asset_value_percentage",
       "portfolio_total_value", "portfolio_assets", "portfolio_currency_percentage",
       "portfolio_asset_type_value", "portfolio_asset_type_percentage" >>

\* a line without the timestamp suffix
NoTimestamp == -1

Comment(kind, text) == Line("#", << <<kind, <<text>>>> >>, Undefined, NoTimestamp)

\* the # HELP and # TYPE lines
HelpLines ==
    Concat([k \in 1..Len(Families) |->
                <<Comment("HELP", Families[k]), Comment("TYPE", Families[k])>>])

\* a group that takes every entry, whoever owns it
ownerMetricsOf_Everyone(ms, owner) == ms

\* a group that holds the entries of the owner, the last one first
ownerMetricsOf_Reversed(ms, owner) ==
    LET own == SelectSeq(ms, LAMBDA e : e.owner = owner)
    IN [k \in 1..Len(own) |-> own[Len(own) + 1 - k]]

\* metricsByOwner.get(owner): the entries of the owner, in the order of the input
ownerMetricsOf(ms, owner) == SelectSeq(ms, LAMBDA e : e.owner = owner)

\* reduce((sum, metric) => sum + metric.value, 0)
RECURSIVE ownerTotalValue(_)
ownerTotalValue(ms) ==
    IF ms = <<>> THEN Num(0)
    ELSE RAdd(ownerTotalValue(SubSeq(ms, 1, Len(ms) - 1)), ms[Len(ms)].value)

\* x || 0
orZero(x) == IF Falsy(x) THEN Num(0) ELSE x

\* acc[key] = (acc[key] || 0) + value, over the values in order
RECURSIVE sumOrZero(_)
sumOrZero(values) ==
    IF values = <<>> THEN Undefined
    ELSE RAdd(orZero(sumOrZero(SubSeq(values, 1, Len(values) - 1))), values[Len(values)])

ValuesOf(ms) == [k \in 1..Len(ms) |-> ms[k].value]
CurrenciesOf(ms) == [k \in 1..Len(ms) |-> ms[k].currency]

\* total > 0 ? (value / total) * 100 : 0
percentageOf(value, total) ==
    IF GtZero(total) THEN RMul(RDiv(value, total), Num(100)) ELSE Num(0)

\* calculateCurrencyDistribution: currency -> percentage, keys in first appearance
\* order; empty unless the total is positive
calculateCurrencyDistribution(ms) ==
    LET totalValue == ownerTotalValue(ms)
        keys == Distinct(CurrenciesOf(ms))
    IN IF ~GtZero(totalValue) THEN <<>>
       ELSE [k \in 1..Len(keys) |->
                [ currency |-> keys[k],
                  percentage |-> RMul(RDiv(sumOrZero(ValuesOf(SelectSeq(ms,
                                      LAMBDA e : e.currency = keys[k]))), totalValue),
                                      Num(100)) ]]

\* EXCHANGE_TYPE_MAPPING[metric.exchange] || "other"
assetTypeOf(exchange) ==
    IF exchange \in {<<"fiat">>, <<"metal">>, <<"crypto">>, <<"stock">>} THEN exchange
    ELSE <<"other">>

\* calculateAssetTypeMetricsForOwner(...).byTypeAndCurrency, flattened in the order
\* of Object.entries: types by first appearance, currencies by first appearance
\* within the type
byTypeAndCurrency(ms) ==
    LET types == Distinct([k \in 1..Len(ms) |-> assetTypeOf(ms[k].exchange)])
        ofType(t) == SelectSeq(ms, LAMBDA e : assetTypeOf(e.exchange) = t)
        row(t) ==
            LET keys == Distinct(CurrenciesOf(ofType(t)))
            IN [k \in 1..Len(keys) |->
                    [ assetType |-> t, currency |-> keys[k],
                      value |-> sumOrZero(ValuesOf(SelectSeq(ofType(t),
                                    LAMBDA e : e.currency = keys[k]))) ]]
    IN Concat([k \in 1..Len(types) |-> row(types[k])])

\* the four lines of one entry
assetLines(metric, total, ts) ==
    LET baseLabels == << <<"symbol", escapeLabelValue(metric.symbol)>>,
                         <<"currency", escapeLabelValue(metric.currency)>>,
                         <<"owner", escapeLabelValue(metric.owner)>>,
                         <<"exchange", escapeLabelValue(metric.exchange)>> >>
    IN << Line("asset_price", baseLabels, metric.currentPrice, ts),
          Line("asset_quantity", baseLabels, metric.quantity, ts),
          Line("asset_value", baseLabels, metric.value, ts),
          Line("asset_value_percentage", baseLabels, percentageOf(metric.value, total), ts) >>

\* one turn of the loop over metricsByOwner
ownerLines(owner, ownerMetrics, options, timestamp) ==
    LET total == ownerTotalValue(ownerMetrics)
        ts == IF options.enableTimestamps THEN timestamp ELSE NoTimestamp
        portfolioLabelsStr ==
            generatePortfolioLabels(withOwner(options.portfolioLabels, owner))
        distribution == calculateCurrencyDistribution(ownerMetrics)
        types == byTypeAndCurrency(ownerMetrics)
        typeLabels(t) == << <<"owner", escapeLabelValue(owner)>>,
                            <<"asset_type", escapeLabelValue(t.assetType)>>,
                            <<"currency", escapeLabelValue(t.currency)>> >>
    IN Concat([k \in 1..Len(ownerMetrics) |-> assetLines(ownerMetrics[k], total, ts)])
       \o (IF Len(ownerMetrics) > 0
           THEN << Line("portfolio_total_value", portfolioLabelsStr, total, ts),
                   Line("portfolio_assets", portfolioLabelsStr, Num(Len(ownerMetrics)), ts) >>
                \o [k \in 1..Len(distribution) |->
                       Line("portfolio_currency_percentage",
                            Append(portfolioLabelsStr,
                                   <<"currency", escapeLabelValue(distribution[k].currency)>>),
                            distribution[k].percentage, ts)]
                \o Concat([k \in 1..Len(types) |->
                       << Line("portfolio_asset_type_value", typeLabels(types[k]),
                               types[k].value, ts),
                          Line("portfolio_asset_type_percentage", typeLabels(types[k]),
                               percentageOf(types[k].value, total), ts) >>])
           ELSE <<>>)

\* generateOpenMetrics(metrics, options), with timestamp = Date.now() / 1000 read at
\* its start: the lines before they are joined
generateOpenMetrics(ms, options, timestamp) ==
    LET owners == Distinct([k \in 1..Len(ms) |-> ms[k].owner])
    IN (IF options.includeHelp THEN HelpLines ELSE <<>>)
       \o Concat([k \in 1..Len(owners) |->
                    ownerLines(owners[k], ownerMetricsOf(ms, owners[k]), options, timestamp)])
       \o <<Comment("EOF", "")>>

\* the entries handed to the exporter
ExportOwners == {<<"alice">>, <<"\\", "n">>, <<"NL">>}
\* value and currency of an entry
ExportHoldings ==
    {<<Num(5), "USD">>, <<Rat(1, 2), "EUR">>, <<Num(-5), "USD">>, <<Num(5), "EUR">>}

MetricEntry(owner, value, currency) ==
    [ symbol |-> <<"BTC">>, quantity |-> Num(1), currentPrice |-> value, value |-> value,
      currency |-> <<currency>>, owner |-> owner,
      exchange |-> <<IF currency = "USD" THEN "crypto" ELSE "binance">> ]

ExportEntries ==
    {MetricEntry(o, h[1], h[2]) : o \in ExportOwners, h \in ExportHoldings}

ExportInputs == UNION {[1..n -> ExportEntries] : n \in 0..MaxEntries}

ExportOptions ==
    { [enableTimestamps |-> FALSE, includeHelp |-> TRUE, portfolioLabels |-> <<>>],
      [enableTimestamps |-> TRUE, includeHelp |-> FALSE,
       portfolioLabels |-> << <<"env", <<"prod">>>> >>],
      [enableTimestamps |-> FALSE, includeHelp |-> TRUE,
       portfolioLabels |-> << <<"owner", <<"zed">>>>, <<"env", <<"a", "\"">>>> >>] }

\* a caller (the /metrics handler, generatePrometheusFormat) renders the entries
\* with its options
Export ==
    /\ \E options \in ExportOptions : exported' = generateOpenMetrics(metrics, options, clock)
    /\ lastOp' = "export"
    /\ UNCHANGED <<ex, mon, store, fails, intent, lastRequested, sinceOpen, env, exs, mons,
                   mgr, assets, stores, rates, metrics, everPositive, fiat, conversion,
                   clock, calls, inflight, lastWrite, settled>>

ExporterSpecInit ==
    /\ ex = ExchangeInit
    /\ mon = MonitorInit("binance", <<"BTC", "ETH">>)
    /\ store = EmptyStore
    /\ rates = RatesInit
    /\ lastOp = "init"
    /\ fails = 0
    /\ intent = "none"
    /\ lastRequested = <<>>
    /\ sinceOpen = "na"
    /\ IdleManager
    /\ IdleService
    /\ assets = <<>> /\ stores = <<>> /\ everPositive = {}
    /\ metrics \in ExportInputs

ExporterNext == Export

SpecExporter == ExporterSpecInit /\ [][ExporterNext]_vars

(***************************************************************************)
(* generateOpenMetrics called again on the same list, as by two scrapes    *)
(***************************************************************************)
MaxClock == 2

RepeatEntries ==
    {MetricEntry(o, h[1], h[2]) :
        o \in {<<"alice">>, <<"NL">>}, h \in {<<Num(5), "USD">>, <<Rat(1, 2), "EUR">>}}

RepeatInputs == UNION {[1..n -> RepeatEntries] : n \in 0..MaxEntries}

\* time passes between two calls
Tick ==
    /\ clock < MaxClock
    /\ clock' = clock + 1
    /\ lastOp' = "tick"
    /\ UNCHANGED <<exchangeVars, managerVars, metricsVars, rates, fiat, conversion,
                   exported, calls, inflight, lastWrite, settled>>

\* a caller renders the list; calls keeps this call and the one before
Scrape ==
    /\ \E options \in ExportOptions :
        LET lines == generateOpenMetrics(metrics, options, clock)
        IN /\ exported' = lines
           /\ calls' = (IF calls = <<>> THEN <<>> ELSE <<calls[Len(calls)]>>)
                       \o <<[options |-> options, lines |-> lines]>>
    /\ lastOp' = "export"
    /\ UNCHANGED <<exchangeVars, managerVars, metricsVars, rates, fiat, conversion, clock,
                   inflight, lastWrite, settled>>

RepeatSpecInit ==
    /\ ex = ExchangeInit
    /\ mon = MonitorInit("binance", <<"BTC", "ETH">>)
    /\ store = EmptyStore
    /\ rates = RatesInit
    /\ lastOp = "init"
    /\ fails = 0
    /\ intent = "none"
    /\ lastRequested = <<>>
    /\ sinceOpen = "na"
    /\ IdleManager
    /\ fiat = [pc |-> "unused"] /\ conversion = <<>> /\ exported = <<>>
    /\ clock = 1 /\ calls = <<>>
    /\ IdleStore
    /\ settled = FALSE
    /\ assets = <<>> /\ stores = <<>> /\ everPositive = {}
    /\ metrics \in RepeatInputs

RepeatNext == Tick \/ Scrape

SpecRepeat == RepeatSpecInit /\ [][RepeatNext]_vars

(***************************************************************************)
(* The Price Store of one exchange under push messages and REST polls      *)
(***************************************************************************)
MaxInflight == 2

\* getPrice(symbol): prices.get(symbol), undefined when the Map has no such key
getPrice(st, symbol) == st[symbol]

\* the PriceData that an adapter hands to updatePrice
StoreSamples ==
    {[symbol |-> s, price |-> p, currency |-> c] :
        s \in {"BTC", "ETH"}, p \in {Num(5), Num(7)}, c \in {"USD", "USDT"}}

\* the lists fetchPrices(symbols) may resolve with
RestAnswers == UNION {[1..n -> StoreSamples] : n \in 0..2}

\* prices.forEach((price) => this.updatePrice(price))
RECURSIVE updatePrices(_, _)
updatePrices(st, prices) ==
    IF prices = <<>> THEN st
    ELSE updatePrices(updatePrice(st, Head(prices).symbol, Head(prices).price,
                                  Head(prices).currency), Tail(prices))

NeverWritten == [sample |-> NoSample, by |-> "none", before |-> "none"]

\* the record of the call that completed last for the symbol, after the calls of one
\* handler (by: "push" or "rest")
WriteRecord(old, samples, by, symbol) ==
    LET hits == SelectSeq(samples, LAMBDA d : d.symbol = symbol)
    IN IF hits = <<>> THEN old[symbol]
       ELSE [ sample |-> [price |-> hits[Len(hits)].price,
                          currency |-> hits[Len(hits)].currency],
              by |-> by,
              before |-> IF Len(hits) > 1 THEN by ELSE old[symbol].by ]

\* a push message is handled: the adapter calls updatePrice once
StorePush ==
    /\ \E d \in StoreSamples :
        /\ store' = updatePrice(store, d.symbol, d.price, d.currency)
        /\ lastWrite' = [s \in Symbols |-> WriteRecord(lastWrite, <<d>>, "push", s)]
    /\ lastOp' = "push"
    /\ UNCHANGED <<ex, mon, fails, intent, lastRequested, sinceOpen, managerVars, metricsVars,
                   rates, fiat, conversion, exported, clock, calls, inflight, settled>>

\* the poll timer fires: updatePrices(symbols) calls fetchPrices and awaits it
StorePollStart ==
    /\ inflight < MaxInflight
    /\ inflight' = inflight + 1
    /\ lastOp' = "pollStart"
    /\ UNCHANGED <<ex, mon, store, fails, intent, lastRequested, sinceOpen, managerVars,
                   metricsVars, rates, fiat, conversion, exported, clock, calls, lastWrite, settled>>

\* a fetch settles: it rejects (caught, logged) or resolves with a list that is
\* written entry by entry
StorePollComplete ==
    /\ inflight > 0
    /\ inflight' = inflight - 1
    /\ \/ /\ store' = store
          /\ lastWrite' = lastWrite
          /\ lastOp' = "pollFailed"
       \/ /\ \E prices \in RestAnswers :
              /\ store' = updatePrices(store, prices)
              /\ lastWrite' = [s \in Symbols |-> WriteRecord(lastWrite, prices, "rest", s)]
          /\ lastOp' = "pollDone"
    /\ UNCHANGED <<ex, mon, fails, intent, lastRequested, sinceOpen, managerVars, metricsVars,
                   rates, fiat, conversion, exported, clock, calls, settled>>

StoreSpecInit ==
    /\ ex = ExchangeInit
    /\ mon = MonitorInit("binance", <<"BTC", "ETH">>)
    /\ store = EmptyStore
    /\ rates = RatesInit
    /\ lastOp = "init"
    /\ fails = 0
    /\ intent = "none"
    /\ lastRequested = <<>>
    /\ sinceOpen = "na"
    /\ IdleManager
    /\ IdleMetrics
    /\ fiat = [pc |-> "unused"] /\ conversion = <<>> /\ exported = <<>>
    /\ clock = 0 /\ calls = <<>>
    /\ inflight = 0
    /\ lastWrite = [s \in Symbols |-> NeverWritten]
    /\ settled = FALSE

StoreNext == StorePush \/ StorePollStart \/ StorePollComplete

SpecStore == StoreSpecInit /\ [][StoreNext]_vars

(***************************************************************************)
(* The exchange under fair timers and socket events.  The run is that of   *)
(* Spec until Settle; from then on no caller intervenes, new WebSocket()   *)
(* does not throw, and a session that is connecting opens: it is closed    *)
(* or fails only once it is OPEN or already going down.                    *)
(***************************************************************************)

Settle ==
    /\ ~settled
    /\ settled' = TRUE
    /\ UNCHANGED <<lastOp, exchangeVars, managerVars, metricsVars, rates, fiat, conversion, exported,
                   clock, calls, inflight, lastWrite>>

\* the reconnect timeout fires and new WebSocket(url) returns a session
ReconnectTimerOpens ==
    /\ ex.timers > 0
    /\ LET e2 == reconnectTimerCallback(Begin(ex), FALSE)
       IN /\ ex' = e2
          /\ fails' = IF e2.armed THEN Bump(fails) ELSE fails
          /\ sinceOpen' = SinceOpenAfter(e2)
    /\ lastOp' = "timer"
    /\ UNCHANGED <<serviceVars, mon, intent, lastRequested, store, rates, managerVars, metricsVars>>

\* an error on a session that has opened
OpenSessionError == ex.ws = "OPEN" /\ SocketError

\* the close event of a session that has opened or is already going down
SessionClose == ex.ws \in {"OPEN", "CLOSING"} /\ SocketClose

SettledNext ==
    \/ SocketOpen
    \/ OpenSessionError
    \/ SessionClose
    \/ ReconnectTimerOpens
    \/ WatchdogTick
    \/ SocketMessage
    \/ StaleSessionEvent

LiveNext ==
    \/ ~settled /\ Next
    \/ Settle
    \/ settled /\ SettledNext

\* the event loop runs every timer that is due and delivers every event of the
\* current session
Fairness ==
    /\ WF_vars(settled /\ SocketOpen)
    /\ WF_vars(settled /\ SessionClose /\ ex.ws = "CLOSING")
    /\ WF_vars(settled /\ ReconnectTimerOpens)
    /\ WF_vars(settled /\ WatchdogTick)

SpecLive == Init /\ [][LiveNext]_vars /\ Fairness

(***************************************************************************)
(* ws.onmessage with the adapters' handleMessage: what a frame that does   *)
(* not parse, or that the adapter chokes on, leaves behind.                *)
(***************************************************************************)
MaxBatch == 2

\* an entry of a Kraken ticker frame: crypto.symbol is a string ("BTC/USD") or
\* a value without a replace method
KrakenEntries ==
    {[symbol |-> sym, isString |-> b, last |-> Num(7)] :
        sym \in {"BTC", "ETH"}, b \in BOOLEAN}

KrakenBatches ==
    UNION {[1..n -> KrakenEntries] : n \in 1..MaxBatch}

\* what a received frame can be, per adapter: not JSON, JSON the adapter ignores,
\* a ticker, and for Binance a ticker without its s field
FramesOf(name) ==
    IF name = "kraken"
    THEN {[kind |-> "invalid"], [kind |-> "ignored"]}
         \cup {[kind |-> "ticker", data |-> d] : d \in KrakenBatches}
    ELSE Frames \cup {[kind |-> "noSymbol"]}

\* KrakenExchange.handleMessage: data.data.forEach(...), which ends at the first
\* entry whose symbol?.replace is not a function
RECURSIVE krakenHandleMessage(_, _)
krakenHandleMessage(st, data) ==
    IF data = <<>> THEN [store |-> st, threw |-> FALSE]
    ELSE IF ~Head(data).isString THEN [store |-> st, threw |-> TRUE]
    ELSE krakenHandleMessage(updatePrice(st, Head(data).symbol, Head(data).last, "USD"),
                             Tail(data))

\* the try block of ws.onmessage: JSON.parse, then the adapter's handleMessage;
\* threw: the catch ran
parseAndHandle(name, st, frame) ==
    IF frame.kind = "invalid" THEN [store |-> st, threw |-> TRUE]
    ELSE IF frame.kind = "noSymbol" THEN [store |-> st, threw |-> TRUE]
    ELSE IF frame.kind = "ticker" /\ name = "kraken" THEN krakenHandleMessage(st, frame.data)
    ELSE [store |-> handleMessage(st, frame), threw |-> FALSE]

\* ws.onmessage of the current session
AdapterMessage ==
    /\ ex.ws = "OPEN"
    /\ ex' = [Begin(ex) EXCEPT !.silence = 0]
    /\ \E frame \in FramesOf(mon.name) :
        LET r == parseAndHandle(mon.name, store, frame)
        IN /\ store' = r.store
           /\ lastOp' = IF r.threw THEN "badMessage" ELSE "message"
    /\ UNCHANGED <<serviceVars, mon, fails, intent, lastRequested, sinceOpen, rates,
                   managerVars, metricsVars>>

MessagesSpecInit ==
    /\ ex = ExchangeInit
    /\ \E name \in {"binance", "kraken"} : mon = MonitorInit(name, <<"BTC", "ETH">>)
    /\ store = EmptyStore
    /\ rates = RatesInit
    /\ lastOp = "init"
    /\ fails = 0
    /\ intent = "none"
    /\ lastRequested = <<>>
    /\ sinceOpen = "na"
    /\ IdleManager
    /\ IdleMetrics
    /\ IdleService

MessagesNext ==
    \/ ConnectCall
    \/ SocketOpen
    \/ SocketClose
    \/ ReconnectTimer
    \/ WatchdogTick
    \/ AdapterMessage
    \/ StaleSessionEvent

SpecMessages == MessagesSpecInit /\ [][MessagesNext]_vars

(***************************************************************************)
(* PriceData with its timestamp: the adapters stamp a sample with          *)
(* Date.now(), RabbitStocks with the updated field of the provider's frame *)
(***************************************************************************)
StampedSymbols == {"BTC", "ETH"}
NoPriceData == [price |-> Undefined, currency |-> "none", timestamp |-> Undefined]
Stamps == 0..MaxClock

\* updatePrice(priceData) with the whole PriceData: prices.set(priceData.symbol, priceData)
setPriceData(st, priceData) ==
    [st EXCEPT ![priceData.symbol] =
        [price |-> priceData.price, currency |-> priceData.currency,
         timestamp |-> priceData.timestamp]]

\* the parsed frames of the Binance stream and of the RabbitStocks stream
StampedFrames(name) ==
    IF name = "rabbitstocks"
    THEN {[event |-> ev, symbol |-> sym, price |-> p, currency |-> c, updated |-> u] :
            ev \in {"update", "other"}, sym \in StampedSymbols,
            p \in {Num(0), Num(500)}, c \in {"USD", "GBX"}, u \in Stamps}
    ELSE {[event |-> ev, symbol |-> sym, price |-> Num(5)] :
            ev \in {"24hrTicker", "other"}, sym \in StampedSymbols}

\* RabbitStocksExchange.handleMessage
rabbitStocksHandleMessage(st, data) ==
    IF data.event # "update" THEN st
    ELSE IF Falsy(data.price) THEN st
    ELSE setPriceData(st,
            [symbol |-> data.symbol,
             price |-> IF data.currency = "GBX" THEN RDiv(data.price, Num(100)) ELSE data.price,
             currency |-> IF data.currency = "GBX" THEN "GBP" ELSE data.currency,
             timestamp |-> Num(data.updated)])

\* BinanceExchange.handleMessage with the sample's timestamp; now: Date.now()
binanceHandleMessage(st, data, now) ==
    IF data.event # "24hrTicker" THEN st
    ELSE setPriceData(st, [symbol |-> data.symbol, price |-> data.price,
                           currency |-> "USDT", timestamp |-> Num(now)])

\* ws.onmessage of an open session with a frame that parses
StampedMessage ==
    /\ \E data \in StampedFrames(mon.name) :
        store' = IF mon.name = "rabbitstocks"
                 THEN rabbitStocksHandleMessage(store, data)
                 ELSE binanceHandleMessage(store, data, clock)
    /\ lastOp' = "message"
    /\ UNCHANGED <<ex, mon, fails, intent, lastRequested, sinceOpen, managerVars, metricsVars,
                   rates, fiat, conversion, exported, clock, calls, inflight, lastWrite, settled>>

StampsSpecInit ==
    /\ ex = ExchangeInit
    /\ \E name \in {"binance", "rabbitstocks"} :
        mon = [MonitorInit(name, <<"BTC", "ETH">>) EXCEPT !.useWebSocket = TRUE]
    /\ store = [s \in StampedSymbols |-> NoPriceData]
    /\ rates = RatesInit
    /\ lastOp = "init"
    /\ fails = 0
    /\ intent = "none"
    /\ lastRequested = <<>>
    /\ sinceOpen = "na"
    /\ IdleManager
    /\ IdleMetrics
    /\ IdleService

StampsNext == Tick \/ StampedMessage

SpecStamps == StampsSpecInit /\ [][StampsNext]_vars

(***************************************************************************)
(* One REST poll of the fiat exchange over the symbols of its Monitor      *)
(***************************************************************************)
MaxSymbols == 3

\* the symbol lists of a fiat Monitor: distinct symbols in configuration order
FiatSymbolLists ==
    {q \in UNION {[1..n -> {"EUR", "GBP", "BTC"}] : n \in 1..MaxSymbols} :
        \A i, j \in 1..Len(q) : i # j => q[i] # q[j]}

\* the polling interval of the fiat Monitor fires
FiatPoll ==
    /\ store' = fetchPricesRest(mon.name, store, mon.symbols, rates)
    /\ lastOp' = "poll"
    /\ UNCHANGED <<ex, mon, fails, intent, lastRequested, sinceOpen, managerVars, metricsVars,
                   rates, fiat, conversion, exported, clock, calls, inflight, lastWrite, settled>>

FiatPollSpecInit ==
    /\ ex = ExchangeInit
    /\ \E symbols \in FiatSymbolLists : mon = MonitorInit("fiat", symbols)
    /\ store = EmptyStore
    /\ rates = RatesInit
    /\ lastOp = "init"
    /\ fails = 0
    /\ intent = "none"
    /\ lastRequested = <<>>
    /\ sinceOpen = "na"
    /\ IdleManager
    /\ IdleMetrics
    /\ IdleService

FiatPollNext == FiatPoll \/ RatesRefresh

SpecFiatPoll == FiatPollSpecInit /\ [][FiatPollNext]_vars

(***************************************************************************)
(* Claims about the exchange connection                                    *)
(***************************************************************************)
RECURSIVE Pow2(_)
Pow2(n) == IF n <= 0 THEN 1 ELSE 2 * Pow2(n - 1)

\* min(1000 * 2^(N-1), 30000)
BackoffFor(n) == Min(INITIAL_BACKOFF * Pow2(n - 1), MAX_BACKOFF)

\* C1: the reconnect timer armed after the N-th consecutive failure (close event,
\* watchdog, or synchronous throw of connectWebSocket) has delay
\* min(1000 * 2^(N-1), 30000) ms.
C1_BackoffSequence ==
    [][ex'.armed => ex'.timerDelay = BackoffFor(fails')]_vars

\* C2: once connectWebSocket has been called and disconnectWebSocket has not been
\* called since, the session is OPEN, or a session is connecting or closing with its
\* close handler attached, or a reconnect timer is pending.
C2_NeverStranded ==
    intent = "connect" =>
        \/ ex.ws = "OPEN"
        \/ ex.ws \in {"CONNECTING", "CLOSING"}
        \/ ex.timers > 0

\* C3: an open event sets backoff to 1000, and the first reconnect timer armed after
\* an open event has delay 1000 ms.
C3_ResetAfterOpen ==
    [][ /\ (lastOp' = "open" => ex'.backoff = INITIAL_BACKOFF)
        /\ (sinceOpen = "opened" /\ ex'.armed => ex'.timerDelay = INITIAL_BACKOFF) ]_vars

\* C4: connectWebSocket on a CONNECTING or OPEN session resolves at once, creates no
\* session and leaves the session, its handlers, the watchdog and backoff unchanged;
\* at most one session has attached handlers.
C4_ConnectIdempotent ==
    /\ [](ex.attached <= 1)
    /\ [][ (lastOp' = "connect" /\ ex.ws \in {"CONNECTING", "OPEN"}) =>
            /\ ex'.callPromise = "resolved"
            /\ ~ex'.created
            /\ ex'.ws = ex.ws /\ ex'.wsSymbols = ex.wsSymbols /\ ex'.wsOwner = ex.wsOwner
            /\ ex'.attached = ex.attached /\ ex'.stale = ex.stale
            /\ ex'.watchdogInterval = ex.watchdogInterval /\ ex'.watchdogs = ex.watchdogs
            /\ ex'.silence = ex.silence
            /\ ex'.backoff = ex.backoff ]_vars

\* connectWebSocket has just returned at once on an OPEN session with a running watchdog
C4_Witness ==
    /\ lastOp = "connect" /\ ex.callPromise = "resolved"
    /\ ex.ws = "OPEN" /\ ex.watchdogs = 1 /\ ex.attached = 1

\* no timer, no session, backoff at its floor, latch released
Quiescent(e) ==
    /\ e.watchdogs = 0 /\ ~e.watchdogInterval
    /\ e.timers = 0 /\ e.reconnectTimeout = "none"
    /\ e.ws = "none" /\ e.attached = 0
    /\ e.backoff = INITIAL_BACKOFF
    /\ ~e.reconnecting

\* C5: after disconnectWebSocket() no timer is pending, there is no session, backoff is
\* 1000 and the latch is false; nothing changes until connectWebSocket or reconnect is
\* called, and a second disconnectWebSocket gives the same state.
C5_DisconnectQuiesces ==
    /\ [](intent = "stopped" => Quiescent(ex))
    /\ [][ (intent = "stopped" /\ intent' = "stopped") =>
            [ex' EXCEPT !.stale = FALSE] = [Begin(ex) EXCEPT !.stale = FALSE] ]_vars

\* a detached session delivers its late event after disconnectWebSocket
C5_Witness ==
    intent = "stopped" /\ lastOp = "stale" /\ ex.currentSymbols # <<>>

\* C6: every session opened by the reconnect timer is opened for the symbols of the
\* most recent connectWebSocket(symbols) call, and the remembered symbols always are
\* those symbols.
C6_StickySymbols ==
    /\ [](intent # "none" => ex.currentSymbols = lastRequested)
    /\ [][ (lastOp' = "timer" /\ ex'.created) => ex'.wsSymbols = lastRequested ]_vars

\* the third attempt in a row was opened by the timer for the two requested symbols
C6_Witness ==
    /\ lastOp = "timer" /\ ex.ws = "CONNECTING" /\ ex.wsOwner = "timer"
    /\ fails >= 2 /\ ex.wsSymbols = <<"BTC", "ETH">>

(***************************************************************************)
(* Claims about the Monitor                                                *)
(***************************************************************************)
\* C7: startMonitoring on a push exchange starts REST polling, with one fetch at once,
\* when the connection attempt fails, and starts no polling timer when the connection is
\* established; on an exchange without push it starts polling with one fetch at once.
C7_FallbackOnFailure ==
    /\ (mon.useWebSocket /\ mon.attempt = "failed") =>
            (mon.pollTimers > 0 /\ mon.fetches >= 1)
    /\ (mon.useWebSocket /\ mon.attempt = "established") => mon.pollTimers = 0
    /\ (~mon.useWebSocket /\ mon.pc = "returned") =>
            (mon.pollTimers > 0 /\ mon.fetches >= 1)

(***************************************************************************)
(* Claims about the MonitorManager                                         *)
(***************************************************************************)
\* the first connection attempt of the Monitor of group k is still under way
AttemptPending(k) ==
    LET name == groupNames(assets)[k]
    IN name \in Range(mgr.monitors) /\ mons[name].attempt = "pending"

\* C8: whenever initialize is not running, it has started a Monitor for every group with a registry entry whose
\* adapter can be built, as soon as no earlier group is still in its first connection
\* attempt (an earlier adapter that throws, or an earlier connection that failed, does
\* not hold the later groups back), and it has returned once no attempt is under way.
C8_FailureDoesNotBlock ==
    mgr.pc \in {"awaiting", "done"} =>
        LET names == groupNames(assets)
        IN /\ \A j \in 1..Len(names) :
                ( /\ names[j] \in Registry
                  /\ env[names[j]] # "ctorThrows"
                  /\ \A k \in 1..(j - 1) : ~AttemptPending(k) )
                => names[j] \in Range(mgr.monitors)
           /\ (\A k \in 1..Len(names) : ~AttemptPending(k)) => mgr.pc = "done"

(***************************************************************************)
(* Claims about the asset metrics                                          *)
(***************************************************************************)
Supported(a) == a.exchange \in Range(mgr.monitors)

\* the Price Store of a's exchange holds a sample for a's symbol with price > 0
HoldsPositive(a) ==
    LET pd == stores[a.exchange][a.symbol]
    IN pd.currency # "none" /\ pd.price # NaN /\ pd.price.n > 0

\* the entries of the last read that are for asset a
EntriesFor(a) ==
    { m \in 1..Len(metrics) :
        /\ metrics[m].symbol = a.symbol /\ metrics[m].quantity = a.quantity
        /\ metrics[m].exchange = a.exchange /\ metrics[m].owner = a.owner }

ExactlyOneEntry(a) ==
    /\ Cardinality(EntriesFor(a)) = 1
    /\ \A m \in EntriesFor(a) : metrics[m].value = RMul(a.quantity, metrics[m].currentPrice)

C10_NoEntryWithoutPositive ==
    lastOp = "read" =>
        /\ \A k \in 1..Len(assets) :
              ~(Supported(assets[k]) /\ HoldsPositive(assets[k])) => EntriesFor(assets[k]) = {}
        /\ Len(metrics) = Cardinality({k \in 1..Len(assets) :
                                          Supported(assets[k]) /\ HoldsPositive(assets[k])})

\* a read with a sample of price 0, a NaN sample or no sample for one asset, and an
\* entry for another
C10_Witness ==
    /\ lastOp = "read"
    /\ Len(metrics) >= 1
    /\ \E k \in 1..Len(assets) :
        /\ Supported(assets[k])
        /\ stores[assets[k].exchange][assets[k].symbol].price \in {Num(0), NaN}
        /\ EntriesFor(assets[k]) = {}
    /\ \E k \in 1..Len(assets) :
        Supported(assets[k]) /\ stores[assets[k].exchange][assets[k].symbol] = NoSample

\* the stored sample of asset a
SampleOf(a) == stores[a.exchange][a.symbol]

\* converting the stored sample of a to a's currency throws
ConversionFails(a) ==
    /\ SampleOf(a).currency # a.currency
    /\ ~convert(rates, SampleOf(a).price, SampleOf(a).currency, a.currency).ok

C12_UnsupportedPartition ==
    /\ [](\A name \in Range(mgr.monitors) : name \in Registry)
    /\ [](\A a \in Range(mgr.unsupportedAssets) : a.exchange \notin Range(mgr.monitors))
    /\ [](mgr.pc = "done" =>
            \A k \in 1..Len(assets) :
                /\ assets[k].exchange \notin Registry =>
                      /\ assets[k] \in Range(mgr.unsupportedAssets)
                      /\ assets[k].exchange \in Range(getStatus(mgr, exs).unsupported.exchanges)
                      /\ assets[k].symbol \in Range(getStatus(mgr, exs).unsupported.assets)
                      /\ assets[k].exchange \notin DOMAIN getStatus(mgr, exs).supported
                /\ assets[k] \in Range(mgr.unsupportedAssets)
                      <=> assets[k].exchange \notin Range(mgr.monitors))
    /\ [](lastOp = "read" =>
            \A m \in 1..Len(metrics) : metrics[m].exchange \in Registry)
    /\ [][mgr.pc = "done" =>
            /\ mgr'.monitors = mgr.monitors
            /\ mgr'.unsupportedAssets = mgr.unsupportedAssets]_vars

\* initialize has returned with an asset of an unknown exchange set aside, and a
\* read returns entries of the monitored exchanges
C12_Witness ==
    /\ mgr.pc = "done" /\ lastOp = "read"
    /\ \E k \in 1..Len(assets) :
        assets[k].exchange \notin Registry /\ assets[k] \in Range(mgr.unsupportedAssets)
    /\ Len(metrics) >= 1

RECURSIVE SumQuantity(_)
SumQuantity(seq) ==
    IF seq = <<>> THEN Num(0) ELSE RAdd(Head(seq).quantity, SumQuantity(Tail(seq)))

\* C13: for every symbol and exchange with a positive stored price, the quantities
\* that getAssetMetrics() reports for the symbol sum to the sum of the quantities of
\* all the AssetConfigs of that symbol and exchange (every symbol of the
\* configurations is held on one monitored exchange).
C13_DuplicatesSummed ==
    lastOp = "readMap" =>
        \A k \in 1..Len(assets) :
            (Supported(assets[k]) /\ HoldsPositive(assets[k])) =>
                SumQuantity(SelectSeq(metrics, LAMBDA e : e.symbol = assets[k].symbol))
                = SumQuantity(SelectSeq(assets, LAMBDA a : /\ a.symbol = assets[k].symbol
                                                          /\ a.exchange = assets[k].exchange))

\* the entries of the Monitors of names, one Monitor after the other
RECURSIVE MonitorsConcat(_)
MonitorsConcat(names) ==
    IF names = <<>> THEN <<>>
    ELSE getAssetMetrics(groupAssets(assets, Head(names)), stores[Head(names)], rates)
         \o MonitorsConcat(Tail(names))

Known(c) == c \in Codes /\ rates[c] # Undefined /\ rates[c] # NaN /\ rates[c].n # 0

\* amount / rate[from] (skipped for the anchor) * rate[to] (skipped for the anchor)
DivideThenMultiply(anchor, amount, from, to) ==
    LET a1 == IF from = anchor THEN amount ELSE RDiv(amount, rates[from])
    IN IF to = anchor THEN a1 ELSE RMul(a1, rates[to])

\* C15: for from # to with known rates, convert returns amount divided by rate[from]
\* and multiplied by rate[to], each step skipped for the anchor, in every variant of
\* FiatService.
C15_DivideThenMultiply ==
    (conversion.called /\ conversion.from # conversion.to
        /\ Known(conversion.from) /\ Known(conversion.to)) =>
        /\ conversion.ok
        /\ conversion.value = DivideThenMultiply(AnchorOf(fiat.variant), conversion.amount,
                                                 conversion.from, conversion.to)

\* C16: convert(amount, X, X) returns amount unchanged for every currency code X,
\* with or without a rate, and every amount, and raises no error.
C16_SameCurrencyIdentity ==
    (conversion.called /\ conversion.from = conversion.to) =>
        /\ conversion.ok
        /\ conversion.value = conversion.amount

C16_Witness ==
    /\ conversion.called
    /\ conversion.from = "GBP" /\ conversion.to = "GBP"
    /\ rates["GBP"] = NoRate
    /\ fiat.variant = "part_000"
    /\ conversion.ok /\ conversion.value = Num(-3)

\* C17: with two supported currencies X and Y and no refresh between the two calls,
\* convert(convert(amount, X, Y), Y, X) is amount again, the anchor included.
\* Amounts are exact rationals here, so the tolerance for rounding is zero.
C17_RoundTrip ==
    (conversion.backCalled /\ conversion.amount # NaN
        /\ Known(conversion.from) /\ Known(conversion.to)) =>
        /\ conversion.backOk
        /\ conversion.backValue = conversion.amount

C17_Witness ==
    /\ conversion.backCalled /\ conversion.backOk
    /\ conversion.from = "EUR" /\ conversion.to = "USD"
    /\ fiat.variant = "part_000"
    /\ conversion.amount = Rat(1, 3)
    /\ conversion.value # conversion.amount
    /\ conversion.backValue = conversion.amount

\* the table has an entry for the currency
HasRate(c) == rates[c] # NoRate

\* C18: convert with from # to raises the unknown-currency error when from or to has
\* no rate; a call of convert, raising or not, leaves the rate table as it was, and
\* after an error a conversion between two known currencies succeeds.
C18_UnknownCurrencyRaises ==
    [][lastOp' \in {"convert", "convertBack"} =>
        /\ rates' = rates
        /\ (lastOp' = "convert" /\ conversion'.from # conversion'.to
                /\ (~HasRate(conversion'.from) \/ ~HasRate(conversion'.to)))
            => ~conversion'.ok
        /\ (lastOp' = "convert" /\ fiat.raised
                /\ Known(conversion'.from) /\ Known(conversion'.to))
            => conversion'.ok]_vars

C18_Witness ==
    /\ fiat.raised
    /\ lastOp = "convert"
    /\ conversion.from # conversion.to
    /\ Known(conversion.from) /\ Known(conversion.to)
    /\ conversion.ok
    /\ \E c \in ConvCodes : ~HasRate(c)

\* C19: a refresh that meets a network error, an unparsable body or a body without
\* rates leaves the rate table and lastUpdate as they were and the refresh timer
\* armed.
C19_FailedRefreshKeepsState ==
    [][(lastOp' \in {"fiatInit", "fiatTick"} /\ fiat'.answer # "rates") =>
        /\ rates' = rates
        /\ fiat'.lastUpdate = fiat.lastUpdate
        /\ fiat'.timers > 0 /\ fiat'.intervalId]_vars

\* the same for the variants that read JSON
C19_JsonVariants ==
    [][(lastOp' \in {"fiatInit", "fiatTick"} /\ fiat'.answer # "rates"
            /\ fiat.variant # "part_001") =>
        /\ rates' = rates
        /\ fiat'.lastUpdate = fiat.lastUpdate
        /\ fiat'.timers > 0 /\ fiat'.intervalId]_vars

(***************************************************************************)
(* Claims about the exporter                                               *)
(***************************************************************************)
\* what a reader of the exposition takes a label value to be
RECURSIVE Unescape(_)
Unescape(value) ==
    IF value = <<>> THEN <<>>
    ELSE IF Head(value) = "\\" /\ Len(value) >= 2
         THEN <<IF value[2] = "n" THEN "NL" ELSE value[2]>> \o Unescape(Tail(Tail(value)))
         ELSE <<Head(value)>> \o Unescape(Tail(value))

\* the lines of the family whose owner label reads as the owner
PortfolioLines(name, owner) ==
    {k \in 1..Len(exported) :
        /\ exported[k].name = name
        /\ \E j \in 1..Len(exported[k].labels) :
            /\ exported[k].labels[j][1] = "owner"
            /\ Unescape(exported[k].labels[j][2]) = owner}

\* the sum of value over the first k entries that belong to the owner
RECURSIVE ValueSum(_, _)
ValueSum(owner, k) ==
    IF k = 0 THEN Num(0)
    ELSE RAdd(ValueSum(owner, k - 1),
              IF metrics[k].owner = owner THEN metrics[k].value ELSE Num(0))

\* C20: for every owner O of the input there is one portfolio_total_value line with
\* owner O, whose value is the sum of value over O's entries, and one
\* portfolio_assets line with owner O, whose value is the number of O's entries.
C20_PerOwnerTotals ==
    lastOp = "export" =>
        \A O \in {metrics[i].owner : i \in 1..Len(metrics)} :
            LET totals == PortfolioLines("portfolio_total_value", O)
                counts == PortfolioLines("portfolio_assets", O)
            IN /\ Cardinality(totals) = 1
               /\ \A k \in totals : exported[k].value = ValueSum(O, Len(metrics))
               /\ Cardinality(counts) = 1
               /\ \A k \in counts :
                    exported[k].value
                    = Num(Cardinality({j \in 1..Len(metrics) : metrics[j].owner = O}))

C20_Witness ==
    /\ lastOp = "export"
    /\ Len(metrics) = 3
    /\ metrics[1].owner = <<"\\", "n">> /\ metrics[1].value = Num(5)
    /\ metrics[2].owner = <<"NL">> /\ metrics[2].value = Num(-5)
    /\ metrics[3].owner = <<"\\", "n">> /\ metrics[3].value = Rat(1, 2)
    /\ \E k \in PortfolioLines("portfolio_total_value", <<"\\", "n">>) :
        exported[k].value = Rat(11, 2)
    /\ \E k \in PortfolioLines("portfolio_assets", <<"NL">>) : exported[k].value = Num(1)

\* the lines of a family whose owner label reads as the owner, in output order
OwnerLines(name, owner) ==
    SelectSeq(exported, LAMBDA l :
        /\ l.name = name
        /\ \E j \in 1..Len(l.labels) :
            l.labels[j][1] = "owner" /\ Unescape(l.labels[j][2]) = owner)

\* the entries of the owner, in input order
EntriesOf(owner) == SelectSeq(metrics, LAMBDA e : e.owner = owner)

RECURSIVE SumLineValues(_)
SumLineValues(ls) ==
    IF ls = <<>> THEN Num(0) ELSE RAdd(Head(ls).value, SumLineValues(Tail(ls)))

\* value / T * 100 when T is not 0, and 0 when T is 0
ShareOf(value, T) == IF T.n # 0 THEN RMul(RDiv(value, T), Num(100)) ELSE Num(0)

\* the asset percentages of the owner follow the rule with total T
AssetSharesFollow(owner, T) ==
    LET ls == OwnerLines("asset_value_percentage", owner)
        es == EntriesOf(owner)
    IN /\ Len(ls) = Len(es)
       /\ \A j \in 1..Len(es) : ls[j].value = ShareOf(es[j].value, T)
       /\ T.n # 0 => SumLineValues(ls) = Num(100)

\* the per-type percentages of the owner follow the rule with total T
TypeSharesFollow(owner, T) ==
    LET vs == OwnerLines("portfolio_asset_type_value", owner)
        ps == OwnerLines("portfolio_asset_type_percentage", owner)
    IN /\ Len(vs) = Len(ps)
       /\ \A j \in 1..Len(vs) : ps[j].value = ShareOf(vs[j].value, T)

\* C21: for every owner with total value T, each asset_value_percentage is
\* value / T * 100 when T is not 0 and 0 when T is 0, so the asset percentages of an
\* owner sum to 100 whenever T is not 0, and the per-type percentages follow the same
\* rule; T may be negative.
C21_PercentageOfTotal ==
    lastOp = "export" =>
        \A O \in {metrics[i].owner : i \in 1..Len(metrics)} :
            LET T == ValueSum(O, Len(metrics))
            IN AssetSharesFollow(O, T) /\ TypeSharesFollow(O, T)

\* the same rule for the owners whose total is not negative
C21_NonNegativeTotals ==
    lastOp = "export" =>
        \A O \in {metrics[i].owner : i \in 1..Len(metrics)} :
            LET T == ValueSum(O, Len(metrics))
            IN T.n >= 0 => AssetSharesFollow(O, T) /\ TypeSharesFollow(O, T)

\* what a reader takes the label of a line to be
LabelOf(l, key) ==
    LET j == CHOOSE j \in 1..Len(l.labels) : l.labels[j][1] = key
    IN Unescape(l.labels[j][2])

\* the place in the input where the owner of entry i appears first
FirstIndex(i) ==
    CHOOSE f \in 1..i :
        /\ metrics[f].owner = metrics[i].owner
        /\ \A g \in 1..(f - 1) : metrics[g].owner # metrics[i].owner

\* entry j comes before entry i: its owner was seen first, or same owner and j earlier
Precedes(j, i) ==
    \/ FirstIndex(j) < FirstIndex(i)
    \/ FirstIndex(j) = FirstIndex(i) /\ j < i

\* first-seen owner, then per-owner input order: the asset_value lines are the entries
\* in that order, and the portfolio_assets lines are the owners in that order
OutputOrder ==
    LET A == SelectSeq(exported, LAMBDA l : l.name = "asset_value")
        P == SelectSeq(exported, LAMBDA l : l.name = "portfolio_assets")
        pos(i) == 1 + Cardinality({j \in 1..Len(metrics) : Precedes(j, i)})
        firsts == {i \in 1..Len(metrics) : FirstIndex(i) = i}
    IN /\ Len(A) = Len(metrics)
       /\ \A i \in 1..Len(metrics) :
            /\ A[pos(i)].value = metrics[i].value
            /\ LabelOf(A[pos(i)], "owner") = metrics[i].owner
            /\ LabelOf(A[pos(i)], "currency") = metrics[i].currency
       /\ Len(P) = Cardinality(firsts)
       /\ \A i \in firsts :
            LabelOf(P[1 + Cardinality({f \in firsts : f < i})], "owner") = metrics[i].owner

\* the last line is # EOF
EndsWithEof ==
    /\ Len(exported) >= 1
    /\ exported[Len(exported)].name = "#"
    /\ exported[Len(exported)].labels[1][1] = "EOF"

WithoutTimestamps(lines) == [k \in 1..Len(lines) |-> [lines[k] EXCEPT !.timestamp = NoTimestamp]]

\* C22 as stated: owners in order of first appearance, each owner's assets in input
\* order, the last line # EOF, and two calls on the same list with the same options
\* give the same lines.
C22_StableOutput ==
    lastOp = "export" =>
        /\ OutputOrder
        /\ EndsWithEof
        /\ (Len(calls) = 2 /\ calls[1].options = calls[2].options)
            => calls[1].lines = calls[2].lines

\* C22 (amended): the order and the last line are as stated; two calls on the same
\* list with the same options give the same lines when enableTimestamps is off (the
\* default), and lines that differ in nothing but the timestamp suffix when it is on.
C22_StableOutputApartFromTimestamps ==
    lastOp = "export" =>
        /\ OutputOrder
        /\ EndsWithEof
        /\ (Len(calls) = 2 /\ calls[1].options = calls[2].options) =>
            /\ ~calls[1].options.enableTimestamps => calls[1].lines = calls[2].lines
            /\ WithoutTimestamps(calls[1].lines) = WithoutTimestamps(calls[2].lines)

C22_Witness ==
    /\ lastOp = "export"
    /\ clock = MaxClock
    /\ Len(metrics) = 3
    /\ metrics[1].owner = <<"NL">> /\ metrics[2].owner = <<"alice">>
    /\ metrics[3].owner = <<"NL">> /\ metrics[3].value # metrics[1].value
    /\ Len(calls) = 2 /\ calls[1].options = calls[2].options
    /\ ~calls[1].options.enableTimestamps
    /\ calls[1].lines = calls[2].lines
    /\ Len(calls[2].lines) > 19

(***************************************************************************)
(* Claims about the Price Store                                            *)
(***************************************************************************)
\* C23: after any interleaving of updatePrice calls from push messages and REST poll
\* completions, getPrice(symbol) returns the one sample of the updatePrice call for
\* that symbol that completed last (undefined if there was none); a symbol that a
\* handler did not write keeps its sample.
C23_LastWriteWins ==
    \A s \in Symbols : getPrice(store, s) = lastWrite[s].sample

C23_Witness ==
    /\ lastOp = "pollDone"
    /\ lastWrite["BTC"].by = "rest" /\ lastWrite["BTC"].before = "push"
    /\ lastWrite["ETH"].by = "push"
    /\ getPrice(store, "BTC") = [price |-> Num(7), currency |-> "USD"]
    /\ getPrice(store, "ETH") = [price |-> Num(5), currency |-> "USDT"]
    /\ getPrice(store, "EUR") = NoSample

(***************************************************************************)
(* Claims about the status of the MonitorManager                           *)
(***************************************************************************)
\* the assets of the configuration whose exchange has no Monitor
WithoutMonitor == SelectSeq(assets, LAMBDA a : a.exchange \notin Range(mgr.monitors))

\* C24: once initialize() has returned, getStatus() lists for every exchange that has
\* a Monitor exactly the symbols of the assets configured for that exchange, also
\* when a symbol is configured on two exchanges, and every asset of an exchange
\* without a Monitor is counted and listed under unsupported.
C24_StatusListsConfiguredSymbols ==
    mgr.pc = "done" =>
        LET status == getStatus(mgr, exs)
        IN /\ DOMAIN status.supported = Range(mgr.monitors)
           /\ \A name \in Range(mgr.monitors) :
                status.supported[name].assets
                = {assets[k].symbol : k \in {j \in 1..Len(assets) : assets[j].exchange = name}}
           /\ status.unsupported.assetCount = Len(WithoutMonitor)
           /\ \A k \in 1..Len(WithoutMonitor) :
                WithoutMonitor[k].symbol \in Range(status.unsupported.assets)

\* the same for the configurations that name every symbol on one exchange only
C24_SymbolsOnOneExchange ==
    (mgr.pc = "done"
        /\ \A j, k \in 1..Len(assets) :
            assets[j].symbol = assets[k].symbol => assets[j].exchange = assets[k].exchange) =>
        LET status == getStatus(mgr, exs)
        IN /\ DOMAIN status.supported = Range(mgr.monitors)
           /\ \A name \in Range(mgr.monitors) :
                status.supported[name].assets
                = {assets[k].symbol : k \in {j \in 1..Len(assets) : assets[j].exchange = name}}
           /\ status.unsupported.assetCount = Len(WithoutMonitor)
           /\ \A k \in 1..Len(WithoutMonitor) :
                WithoutMonitor[k].symbol \in Range(status.unsupported.assets)

(***************************************************************************)
(* Claims about stopping a Monitor                                         *)
(***************************************************************************)
\* C25: after stopMonitoring() has returned, whatever startMonitoring and
\* stopMonitoring calls came before, no polling interval is running and the exchange
\* is disconnected with no watchdog and no reconnect timer pending.
C25_StopCancelsEverything ==
    lastOp = "stop" =>
        /\ mon.pollTimers = 0 /\ ~mon.pollIntervalId
        /\ Quiescent(ex)

\* the part of C25 about the exchange
C25_StopDisconnects ==
    lastOp = "stop" => ~mon.pollIntervalId /\ Quiescent(ex)


\* C26: under weak fairness of timer firings and socket events, once every
\* connection attempt opens and disconnectWebSocket is no longer called, an
\* exchange that was asked to connect eventually is Connected (session OPEN).
C26_EventuallyConnected ==
    (settled /\ intent = "connect") ~> isWebSocketConnected(ex)

\* what does hold: the exchange gets Connected from every state whose latch, if
\* set, has its reconnect timer pending
C26_ConnectedUnlessStranded ==
    (settled /\ intent = "connect" /\ (ex.reconnecting => ex.timers > 0))
        ~> isWebSocketConnected(ex)


\* C27: at most one reconnect timer is pending in every reachable state, whatever
\* the order of close events, watchdog triggers and rejected attempts, and a
\* handler that arms the timer leaves no watchdog running.
C27_OneReconnectTimer ==
    /\ ex.timers <= 1
    /\ ex.armed => ex.timers = 1 /\ ex.watchdogs = 0 /\ ~ex.watchdogInterval

\* a close event arrived while a reconnect was scheduled and armed nothing
C27_Witness ==
    /\ lastOp = "close"
    /\ ex.reconnecting /\ ex.timers = 1 /\ ~ex.armed


\* C29: a watchdog tick on an OPEN session that has been silent for more than
\* 60000 ms schedules a reconnect: the session is torn down, the watchdog is
\* cancelled and the reconnect timer is armed with the current backoff.  A tick
\* on a session that is not OPEN, or silent for at most 60000 ms, changes nothing.
C29_WatchdogTick ==
    [][WatchdogTick =>
        IF ex.ws = "OPEN" /\ ex'.silence > SILENCE_LIMIT
        THEN /\ ex'.ws = "none"
             /\ ex'.watchdogs = 0 /\ ~ex'.watchdogInterval
             /\ ex'.reconnecting
             /\ ex'.armed /\ ex'.timers = 1 /\ ex'.reconnectTimeout = "pending"
             /\ ex'.timerDelay = ex.backoff /\ ex'.backoff = ex.backoff
        ELSE /\ ex' = [Begin(ex) EXCEPT !.silence = ex'.silence]
             /\ UNCHANGED <<store, mon>>
    ]_vars

\* a tick found an OPEN session silent for too long and armed the timer
C29_Witness ==
    /\ lastOp = "watchdog"
    /\ ex.silence > SILENCE_LIMIT
    /\ ex.armed /\ ex.ws = "none" /\ ex.timerDelay = ex.backoff


\* C30: a message that is not valid JSON, or whose adapter handling throws, leaves
\* the session open and the watchdog timer, the reconnect timer, backoff, the latch
\* and the Price Store as they were.
C30_BadMessageChangesNothing ==
    [][lastOp' = "badMessage" =>
        /\ ex' = [Begin(ex) EXCEPT !.silence = ex'.silence]
        /\ store' = store
    ]_vars

\* what does hold: the session, the timers, backoff and the latch are untouched,
\* and a Binance frame that throws stores nothing
C30_BadMessageKeepsSession ==
    [][lastOp' = "badMessage" =>
        /\ ex' = [Begin(ex) EXCEPT !.silence = 0]
        /\ mon.name = "binance" => store' = store
    ]_vars


\* C28: open, message, close and error events that a torn down or replaced session
\* delivers late change nothing: no price is written, lastMessageTime, backoff and
\* the latch keep their values, no watchdog is started and no reconnect scheduled.
C28_LateEventsChangeNothing ==
    [][StaleSessionEvent =>
        /\ ex' = [Begin(ex) EXCEPT !.stale = FALSE]
        /\ UNCHANGED <<store, mon>>
    ]_vars

\* a late event arrived after scheduleReconnect tore the session down
C28_Witness ==
    /\ lastOp = "stale"
    /\ ex.ws = "none" /\ ex.reconnecting /\ ex.timers = 1 /\ ex.watchdogs = 0

\* a late event arrived after the session was replaced by a new one
C28_WitnessReplaced ==
    /\ lastOp = "stale"
    /\ ex.ws = "OPEN" /\ ex.watchdogs = 1


\* C33: the reconnecting latch is true exactly when a reconnect timer is pending,
\* in every reachable state.
C33_LatchIffTimer ==
    ex.reconnecting <=> ex.timers > 0

\* what does hold of the latch: it is never set while a session is OPEN
C33_NoLatchWhileOpen ==
    ex.ws = "OPEN" => ~ex.reconnecting

\* C34: while a reconnect timer is pending there is no session object, and while a
\* session is CONNECTING or OPEN no reconnect timer is pending.
C34_TimerExcludesSession ==
    ex.timers > 0 => ex.ws = "none"

\* what does hold: the handler that arms the timer leaves no session behind
C34_ArmingDropsSession ==
    ex.armed => ex.ws = "none"

\* C39: at most one watchdog timer exists; a watchdog runs only while a session
\* exists whose open event has fired; none survives scheduleReconnect,
\* disconnectWebSocket or reconnect.
C39_WatchdogWithOpenedSession ==
    /\ [](ex.watchdogs <= 1)
    /\ [](ex.watchdogs > 0 => ex.ws \in {"OPEN", "CLOSING", "CLOSED"})
    /\ [][ex'.watchdogs > ex.watchdogs => SocketOpen]_vars
    /\ [](lastOp \in {"disconnect", "reconnect"} \/ ex.armed => ex.watchdogs = 0)

\* the watchdog's own tick scheduled the reconnect and did not survive it
C39_Witness ==
    /\ lastOp = "watchdog"
    /\ ex.armed /\ ex.watchdogs = 0 /\ ~ex.watchdogInterval

\* a watchdog runs beside a session that has opened and is going down
C39_WitnessClosing ==
    ex.watchdogs = 1 /\ ex.ws = "CLOSING"


\* C38: an OPEN session that receives nothing has its reconnect scheduled no later
\* than 75 s after its last message (the 60 s threshold plus one watchdog period of
\* 15 s), so no OPEN session is ever seen silent for more than 60 s after a tick;
\* every received message, also one that does not parse or that the adapter
\* ignores, restarts the silence window.
C38_SilenceBound ==
    /\ [](ex.ws = "OPEN" => ex.silence <= SILENCE_LIMIT)
    /\ [][WatchdogTick /\ ex.ws = "OPEN" /\ ex.silence = SILENCE_LIMIT =>
            ex'.armed /\ ex'.timers = 1 /\ ex'.ws = "none"]_vars
    /\ [][AdapterMessage => ex'.silence = 0 /\ ex'.ws = "OPEN"]_vars

\* the tick at 75 s of silence scheduled the reconnect
C38_Witness ==
    /\ lastOp = "watchdog"
    /\ ex.armed /\ ex.silence = SILENCE_LIMIT + WATCHDOG_PERIOD


\* the timestamp of the sample stored for a symbol, -1 while there is none
StampOf(st, symbol) ==
    IF st[symbol] = NoPriceData THEN -1 ELSE st[symbol].timestamp.n

\* C37: for each symbol the timestamp of the stored sample never decreases, for
\* every adapter.
C37_TimestampsNeverDecrease ==
    [][\A sym \in StampedSymbols : StampOf(store', sym) >= StampOf(store, sym)]_vars

\* what does hold: the samples an adapter stamps with Date.now() never go back
C37_ClockStampsNeverDecrease ==
    [][mon.name = "binance" =>
        \A sym \in StampedSymbols : StampOf(store', sym) >= StampOf(store, sym)]_vars


\* the sample a fiat poll stores for a symbol whose rate is known
FiatSample(symbol) ==
    [price |-> getRate(rates, symbol, "USD").value, currency |-> "USD"]

\* C32: in one REST poll of the fiat exchange over a symbol list, a symbol whose
\* rate is unknown does not keep the other symbols of the list from being
\* updated in that poll, wherever it stands in the list.
C32_UnknownSymbolIsolated ==
    [][FiatPoll =>
        \A k \in 1..Len(mon.symbols) :
            getRate(rates, mon.symbols[k], "USD").ok =>
                store'[mon.symbols[k]] = FiatSample(mon.symbols[k])
    ]_vars

\* what does hold: the symbols that stand before the first unknown one are updated
C32_UpdatedUpToUnknown ==
    [][FiatPoll =>
        \A k \in 1..Len(mon.symbols) :
            (\A j \in 1..k : getRate(rates, mon.symbols[j], "USD").ok) =>
                store'[mon.symbols[k]] = FiatSample(mon.symbols[k])
    ]_vars


\* the poll the Monitor is about to make throws: some symbol has no rate
PollFails ==
    /\ mon.name = "fiat"
    /\ \E k \in 1..Len(mon.symbols) : ~getRate(rates, mon.symbols[k], "USD").ok

\* C31: a REST poll that fails leaves every previously stored price unchanged and
\* does not stop the polling timer, so the next tick polls again.
C31_FailedPollChangesNothing ==
    [][PollTick /\ PollFails =>
        /\ \A sym \in Symbols : store[sym] # NoSample => store'[sym] = store[sym]
        /\ mon'.pollTimers = mon.pollTimers /\ mon'.pollIntervalId = mon.pollIntervalId
    ]_vars

\* what does hold: the failing poll leaves the polling timer armed, and the prices
\* of the symbols from the failing one on are as before
C31_FailedPollKeepsTimer ==
    [][PollTick /\ PollFails =>
        /\ mon'.pollTimers = mon.pollTimers /\ mon'.pollIntervalId = mon.pollIntervalId
        /\ mon'.pollTimers > 0
        /\ \A k \in 1..Len(mon.symbols) :
            (\E j \in 1..k : ~getRate(rates, mon.symbols[j], "USD").ok) =>
                store'[mon.symbols[k]] = store[mon.symbols[k]]
    ]_vars

\* a fetch that rejects inside updatePrices stores nothing
C31_RejectedFetchKeepsStore ==
    [][lastOp' = "pollFailed" => store' = store /\ lastWrite' = lastWrite]_vars


\* the push path of the exchange is live
PushLive == ex.ws \in {"CONNECTING", "OPEN"} \/ ex.timers > 0

\* C35: a Monitor never has both transports active: no REST polling timer is
\* armed while a session is CONNECTING or OPEN or a reconnect timer is pending.
C35_OneTransport ==
    mon.pollTimers > 0 => ~PushLive

\* what does hold: a Monitor of an exchange without push never has a push path
C35_PollOnlyWithoutPush ==
    ~mon.useWebSocket => ~PushLive


\* C36: after stopMonitoring() has returned, the Price Store of the exchange is
\* not modified until startMonitoring is called again.
C36_NoWriteAfterStop ==
    [][mon.pc = "idle" /\ mon'.pc = "idle" => store' = store]_vars

\* what does hold: nothing is written after a stop that left no polling interval,
\* and the events of the dropped session write nothing
C36_NoWriteWithoutLeakedTimer ==
    [][mon.pc = "idle" /\ mon'.pc = "idle" /\ mon.pollTimers = 0 => store' = store]_vars

====
